---- MODULE Spec2Model ----
(***************************************************************************)
(* CrediNews: the evidence-fusion and scoring pipeline.                    *)
(*                                                                         *)
(*   src/utils/credibility_scorer.py   CredibilityScorer                   *)
(*   src/utils/analysis_engine.py      NewsAnalysisEngine                  *)
(*   src/services/factcheck_service.py FactCheckService                    *)
(*   src/services/firebase_service.py  FirebaseService.save_analysis_result*)
(*   src/services/facebook_service.py  FacebookService                     *)
(*                                                                         *)
(* Numbers.  Scores and confidences are decimal fractions; the model keeps *)
(* them as integers in thousandths (0.8 is 800).  The aggregation weights  *)
(* are kept in hundredths (0.35 is 35), so a weighted sum is an integer in *)
(* units of 1/100000 and is exact.  Python's round(x, 3) is Round3.  A     *)
(* quotient the code leaves unrounded is kept to the nearest thousandth.   *)
(* Binary floating point is not modelled: the decimal literals of the      *)
(* source are taken at their decimal value.                                *)
(***************************************************************************)
EXTENDS Integers, Sequences, FiniteSets, TLC

VARIABLES
    pc,                \* position of the running operation
    input_data,        \* analyze_news: the request's input (its features)
    input_type,        \* analyze_news: the input type after detection
    user_id,           \* analyze_news: TRUE when a requester id is given
    db,                \* FirebaseService.db: TRUE when the store is connected
    analysis_results,  \* analyze_news: the result dictionary being built
    processed_text,    \* analyze_news: preprocessing_results['processed_text']
    calls,             \* collaborator invocations of this request, in order
    weights,           \* CredibilityScorer.weights
    component_scores,  \* calculate_credibility_score: the five signals
    assessment,        \* calculate_credibility_score: its return value
    key_phrases,       \* _get_factcheck_results: the key phrases (their number)
    all_results        \* _get_factcheck_results: the summaries kept so far

vars == <<pc, input_data, input_type, user_id, db, analysis_results,
          processed_text, calls, weights, component_scores, assessment,
          key_phrases, all_results>>

----------------------------------------------------------------------------
(* Fixed-point arithmetic *)

Abs(x) == IF x < 0 THEN -x ELSE x

Min(a, b) == IF a <= b THEN a ELSE b

Max(a, b) == IF a >= b THEN a ELSE b

\* n/d to the nearest integer, ties to the even one (Python's round); n >= 0, d > 0
DivRound(n, d) ==
    LET q == n \div d
        r == n % d
    IN  IF 2 * r < d THEN q
        ELSE IF 2 * r > d THEN q + 1
        ELSE IF q % 2 = 0 THEN q ELSE q + 1

\* round(x, 3) of a value x given in units of 1/100000: the result in thousandths
Round3(x) == DivRound(x, 100)

RECURSIVE GCD(_, _)
GCD(a, b) == IF b = 0 THEN a ELSE GCD(b, a % b)

RECURSIVE SumSeq(_)
SumSeq(s) == IF s = <<>> THEN 0 ELSE Head(s) + SumSeq(Tail(s))

----------------------------------------------------------------------------
(* CredibilityScorer *)

Components ==
    <<"ml_prediction", "factcheck_results", "poser_detection",
      "preprocessing_flags", "source_credibility">>

ComponentSet == {Components[i] : i \in 1..Len(Components)}

\* weights with the classifier's mistyped as 0.40: they sum to 1.05
InitWeights_mistyped ==
    [ml_prediction |-> 40, factcheck_results |-> 30, poser_detection |-> 15,
     preprocessing_flags |-> 10, source_credibility |-> 10]

\* self.weights, in hundredths
InitWeights ==
    [ml_prediction |-> 35, factcheck_results |-> 30, poser_detection |-> 15,
     preprocessing_flags |-> 10, source_credibility |-> 10]

Signal(s, c) == [score |-> s, confidence |-> c]

EmptyDict == [empty |-> TRUE]

\* _process_ml_prediction scoring a "fake" label by the classifier's doubt
process_ml_prediction_by_doubt(ml_data) ==
    IF ml_data.empty THEN Signal(500, 0)
    ELSE LET score == IF ml_data.is_str
                      THEN (IF ml_data.prediction \in {"real", "true", "credible"}
                            THEN 1000 ELSE 1000 - ml_data.confidence)
                      ELSE ml_data.number
         IN  Signal(score, ml_data.confidence)

\* ---- _process_ml_prediction ----
process_ml_prediction(ml_data) ==
    IF ml_data.empty THEN Signal(500, 0)
    ELSE LET score == IF ml_data.is_str
                      THEN (IF ml_data.prediction \in {"real", "true", "credible"}
                            THEN 1000 ELSE 0)
                      ELSE ml_data.number
         IN  Signal(score, ml_data.confidence)

\* ---- _process_factcheck_results ----
process_factcheck_results(factcheck_data) ==
    IF factcheck_data.empty \/ factcheck_data.error THEN Signal(500, 0)
    ELSE IF factcheck_data.credibility_analysis.empty THEN Signal(500, 0)
    ELSE Signal(factcheck_data.credibility_analysis.overall_score,
                factcheck_data.credibility_analysis.confidence)

\* _process_poser_detection taking an account without analysis for one of
\* unknown risk
process_poser_detection_unknown_risk(poser_data) ==
    IF poser_data.empty THEN Signal(700, 0)
    ELSE IF poser_data.poser_analysis.empty THEN Signal(500, 300)
    ELSE LET pa == poser_data.poser_analysis
             base == IF pa.risk_level = "LOW" THEN Signal(800, 700)
                     ELSE IF pa.risk_level = "MEDIUM" THEN Signal(500, 600)
                     ELSE IF pa.risk_level = "HIGH" THEN Signal(200, 800)
                     ELSE Signal(500, 300)
         IN  IF pa.is_verified
             THEN Signal(Min(1000, base.score + 200), Min(1000, base.confidence + 100))
             ELSE base

\* ---- _process_poser_detection ----
process_poser_detection(poser_data) ==
    IF poser_data.empty THEN Signal(700, 0)
    ELSE IF poser_data.poser_analysis.empty THEN Signal(700, 0)
    ELSE LET pa == poser_data.poser_analysis
             base == IF pa.risk_level = "LOW" THEN Signal(800, 700)
                     ELSE IF pa.risk_level = "MEDIUM" THEN Signal(500, 600)
                     ELSE IF pa.risk_level = "HIGH" THEN Signal(200, 800)
                     ELSE Signal(500, 300)
         IN  IF pa.is_verified
             THEN Signal(Min(1000, base.score + 200), Min(1000, base.confidence + 100))
             ELSE base

\* _process_preprocessing_flags without the final max(0.0, min(1.0, score))
process_preprocessing_flags_unclamped(preprocessing_data) ==
    IF preprocessing_data.empty THEN Signal(600, 0)
    ELSE LET p  == preprocessing_data
             s0 == 600
             s1 == IF p.fake_indicators > 0 THEN s0 - p.fake_indicators * 100 ELSE s0
             s2 == IF p.is_sarcastic THEN s1 - (p.sarcasm_confidence * 2) \div 10 ELSE s1
             s3 == IF p.slang_detected > 3 THEN s2 - 100 ELSE s2
             s4 == IF p.token_count < 10 THEN s3 - 100
                   ELSE IF p.token_count > 1000 THEN s3 + 50
                   ELSE s3
         IN  Signal(s4, 500)

\* _process_preprocessing_flags counting in the score the fake indicators it
\* lists, the first three
process_preprocessing_flags_listed_only(preprocessing_data) ==
    IF preprocessing_data.empty THEN Signal(600, 0)
    ELSE LET p  == preprocessing_data
             s0 == 600
             s1 == IF p.fake_indicators > 0 THEN s0 - Min(3, p.fake_indicators) * 100 ELSE s0
             s2 == IF p.is_sarcastic THEN s1 - (p.sarcasm_confidence * 2) \div 10 ELSE s1
             s3 == IF p.slang_detected > 3 THEN s2 - 100 ELSE s2
             s4 == IF p.token_count < 10 THEN s3 - 100
                   ELSE IF p.token_count > 1000 THEN s3 + 50
                   ELSE s3
         IN  Signal(Max(0, Min(1000, s4)), 500)

\* ---- _process_preprocessing_flags ----
\* fake_indicators and slang_detected are lists: the score reads their lengths.
\* sarcasm_confidence * 0.2 is exact for the confidences the model draws
\* (multiples of 0.005).
process_preprocessing_flags(preprocessing_data) ==
    IF preprocessing_data.empty THEN Signal(600, 0)
    ELSE LET p  == preprocessing_data
             s0 == 600
             s1 == IF p.fake_indicators > 0 THEN s0 - p.fake_indicators * 100 ELSE s0
             s2 == IF p.is_sarcastic THEN s1 - (p.sarcasm_confidence * 2) \div 10 ELSE s1
             s3 == IF p.slang_detected > 3 THEN s2 - 100 ELSE s2
             s4 == IF p.token_count < 10 THEN s3 - 100
                   ELSE IF p.token_count > 1000 THEN s3 + 50
                   ELSE s3
         IN  Signal(Max(0, Min(1000, s4)), 500)

\* line 188: the fake indicators named in the flags, fake_indicators[:3]
listed_fake_indicators(preprocessing_data) == Min(3, preprocessing_data.fake_indicators)

\* s ends with suffix (str.endswith)
EndsWith(s, suffix) ==
    /\ Len(suffix) <= Len(s)
    /\ SubSeq(s, Len(s) - Len(suffix) + 1, Len(s)) = suffix

\* the value of key d in a table of [domain, score] rows, or -1 when absent
Lookup(table, d) ==
    IF \E i \in 1..Len(table) : table[i].domain = d
    THEN table[CHOOSE i \in 1..Len(table) : table[i].domain = d].score
    ELSE -1

reliable_domains ==
    <<[domain |-> <<"b","b","c",".","c","o","m">>, score |-> 900],
      [domain |-> <<"r","e","u","t","e","r","s",".","c","o","m">>, score |-> 900],
      [domain |-> <<"a","p",".","o","r","g">>, score |-> 900],
      [domain |-> <<"c","n","n",".","c","o","m">>, score |-> 800],
      [domain |-> <<"n","y","t","i","m","e","s",".","c","o","m">>, score |-> 800],
      [domain |-> <<"w","a","s","h","i","n","g","t","o","n","p","o","s","t",".","c","o","m">>, score |-> 800],
      [domain |-> <<"t","h","e","g","u","a","r","d","i","a","n",".","c","o","m">>, score |-> 800],
      [domain |-> <<"n","p","r",".","o","r","g">>, score |-> 800],
      [domain |-> <<"a","b","s","c","b","n",".","c","o","m">>, score |-> 700],
      [domain |-> <<"g","m","a","n","e","t","w","o","r","k",".","c","o","m">>, score |-> 700],
      [domain |-> <<"i","n","q","u","i","r","e","r",".","n","e","t">>, score |-> 700],
      [domain |-> <<"r","a","p","p","l","e","r",".","c","o","m">>, score |-> 700]>>

unreliable_domains ==
    <<[domain |-> <<"f","a","k","e","-","n","e","w","s","-","s","i","t","e",".","c","o","m">>, score |-> 100],
      [domain |-> <<"c","l","i","c","k","b","a","i","t","-","n","e","w","s",".","c","o","m">>, score |-> 200],
      [domain |-> <<"c","o","n","s","p","i","r","a","c","y","-","t","h","e","o","r","i","e","s",".","c","o","m">>, score |-> 100]>>

\* ---- _process_source_credibility ----
process_source_credibility(source_data) ==
    IF source_data.empty THEN Signal(500, 0)
    ELSE LET domain == source_data.domain
             source_type == source_data.type
         IN  IF Lookup(reliable_domains, domain) >= 0
                 THEN Signal(Lookup(reliable_domains, domain), 800)
             ELSE IF Lookup(unreliable_domains, domain) >= 0
                 THEN Signal(Lookup(unreliable_domains, domain), 800)
             ELSE IF EndsWith(domain, <<".", "g", "o", "v">>)
                     \/ EndsWith(domain, <<".", "e", "d", "u">>)
                 THEN Signal(850, 700)
             ELSE IF source_type = "facebook" THEN Signal(400, 500)
             ELSE IF source_type = "user_input" THEN Signal(500, 300)
             ELSE Signal(500, 400)

\* ---- _calculate_confidence ----
\* np.var(scores) < 0.1 for the five scores s: with S = sum s and Q = sum s^2
\* (in thousandths), var = Q/5 - (S/5)^2, so var < 0.1 iff 5Q - S^2 < 2500000.
ScoreSeq(cs) == [i \in 1..Len(Components) |-> cs[Components[i]].score]

LowVariance(cs) ==
    LET s == ScoreSeq(cs)
        S == SumSeq(s)
        Q == SumSeq([i \in 1..Len(s) |-> s[i] * s[i]])
    IN  Len(s) * Q - S * S < 100000 * Len(s) * Len(s)

\* _calculate_confidence without the agreement bonus
calculate_confidence_no_bonus(cs, w) ==
    Min(100000, SumSeq([i \in 1..Len(Components) |->
                           cs[Components[i]].confidence * w[Components[i]]]))

\* _calculate_confidence with the weights taken one signal further on
calculate_confidence_misaligned(cs, w) ==
    LET weighted_confidence ==
            SumSeq([i \in 1..Len(Components) |->
                       cs[Components[i]].confidence
                          * w[Components[(i % Len(Components)) + 1]]])
        agreement_bonus == IF LowVariance(cs) THEN 10000 ELSE 0
    IN  Min(100000, weighted_confidence + agreement_bonus)

\* the result in units of 1/100000
calculate_confidence(cs, w) ==
    LET weighted_confidence ==
            SumSeq([i \in 1..Len(Components) |->
                       cs[Components[i]].confidence * w[Components[i]]])
        agreement_bonus == IF LowVariance(cs) THEN 10000 ELSE 0
    IN  Min(100000, weighted_confidence + agreement_bonus)

\* _determine_verdict with the second bucket's threshold copied from the first
determine_verdict_copied_threshold(score, confidence) ==
    IF confidence < 30000 THEN "Insufficient Evidence"
    ELSE IF score >= 80000
        THEN (IF confidence >= 70000 THEN "Highly Credible" ELSE "Likely Credible")
    ELSE IF score >= 60000
        THEN (IF confidence >= 70000 THEN "Mostly Credible" ELSE "Leaning Credible")
    ELSE IF score >= 40000
        THEN (IF confidence >= 50000 THEN "Mixed Evidence" ELSE "Uncertain")
    ELSE IF score >= 20000
        THEN (IF confidence >= 60000 THEN "Mostly Unreliable" ELSE "Leaning Unreliable")
    ELSE (IF confidence >= 70000 THEN "Highly Unreliable" ELSE "Likely Unreliable")

\* ---- _determine_verdict ----  score and confidence in units of 1/100000
determine_verdict(score, confidence) ==
    IF confidence < 30000 THEN "Insufficient Evidence"
    ELSE IF score >= 80000
        THEN (IF confidence >= 70000 THEN "Highly Credible" ELSE "Likely Credible")
    ELSE IF score >= 60000
        THEN (IF confidence >= 60000 THEN "Mostly Credible" ELSE "Leaning Credible")
    ELSE IF score >= 40000
        THEN (IF confidence >= 50000 THEN "Mixed Evidence" ELSE "Uncertain")
    ELSE IF score >= 20000
        THEN (IF confidence >= 60000 THEN "Mostly Unreliable" ELSE "Leaning Unreliable")
    ELSE (IF confidence >= 70000 THEN "Highly Unreliable" ELSE "Likely Unreliable")

\* ---- _generate_explanation ----
\* The text is kept by what decides it: the three components with the largest
\* |score - 0.5| (sorted() is stable, reverse=True keeps ties in input order),
\* each with its impact, and the closing note.
Impact(score) ==
    IF score >= 700 THEN "supports credibility"
    ELSE IF score <= 300 THEN "raises concerns"
    ELSE "neutral impact"

Rank(cs, i) ==
    LET key(j) == Abs(cs[Components[j]].score - 500)
    IN  1 + Cardinality({j \in 1..Len(Components) :
                            \/ key(j) > key(i)
                            \/ (key(j) = key(i) /\ j < i)})

generate_explanation(cs, final_score, confidence) ==
    [factors |-> [r \in 1..3 |->
                    LET i == CHOOSE j \in 1..Len(Components) : Rank(cs, j) = r
                    IN  <<Components[i], Impact(cs[Components[i]].score)>>],
     note    |-> IF confidence < 50000 THEN "low confidence"
                 ELSE IF confidence >= 80000 THEN "high confidence"
                 ELSE "none"]

\* a weighted sum renormalized over the signals that have a confidence
weighted_score_renormalized(cs, w) ==
    LET present == [i \in 1..Len(Components) |->
                       IF cs[Components[i]].confidence > 0 THEN 1 ELSE 0]
        total == SumSeq([i \in 1..Len(Components) |-> present[i] * w[Components[i]]])
        sum   == SumSeq([i \in 1..Len(Components) |->
                            present[i] * cs[Components[i]].score * w[Components[i]]])
    IN  IF total = 0 THEN 50000 ELSE (sum * 100) \div total

\* ---- calculate_credibility_score, lines 35-79: the aggregation of five signals
weighted_score(cs, w) ==
    SumSeq([i \in 1..Len(Components) |-> cs[Components[i]].score * w[Components[i]]])

aggregate(cs, w) ==
    LET ws   == weighted_score(cs, w)
        conf == calculate_confidence(cs, w)
    IN  [final_score      |-> Round3(ws),
         confidence       |-> Round3(conf),
         verdict          |-> determine_verdict(ws, conf),
         explanation      |-> generate_explanation(cs, ws, conf),
         component_scores |-> cs,
         weights_used     |-> w,
         raw_score        |-> ws,
         raw_confidence   |-> conf]

\* ---- calculate_credibility_score, lines 28-33: the five transforms
extract_component_scores(analysis_data) ==
    [ml_prediction       |-> process_ml_prediction(analysis_data.ml_prediction),
     factcheck_results   |-> process_factcheck_results(analysis_data.factcheck_results),
     poser_detection     |-> process_poser_detection(analysis_data.poser_analysis),
     preprocessing_flags |-> process_preprocessing_flags(analysis_data.preprocessing_results),
     source_credibility  |-> process_source_credibility(analysis_data.source_info)]

calculate_credibility_score(analysis_data, w) ==
    aggregate(extract_component_scores(analysis_data), w)

----------------------------------------------------------------------------
(* FactCheckService *)
(* A text is a sequence of one-character strings. *)

UpperCase == <<"A","B","C","D","E","F","G","H","I","J","K","L","M",
               "N","O","P","Q","R","S","T","U","V","W","X","Y","Z">>

LowerCase == <<"a","b","c","d","e","f","g","h","i","j","k","l","m",
               "n","o","p","q","r","s","t","u","v","w","x","y","z">>

\* str.lower()
LowerChar(c) ==
    IF \E i \in 1..Len(UpperCase) : UpperCase[i] = c
    THEN LowerCase[CHOOSE i \in 1..Len(UpperCase) : UpperCase[i] = c]
    ELSE c

Lower(s) == [i \in 1..Len(s) |-> LowerChar(s[i])]

\* a in b, for texts
IsSubstring(a, b) ==
    \E i \in 0..(Len(b) - Len(a)) : SubSeq(b, i + 1, i + Len(a)) = a

\* table order is the insertion order of the dict literal
rating_mappings ==
    <<[key |-> <<"t","r","u","e">>,
       score |-> 1000, label |-> "True", confidence |-> 900],
      [key |-> <<"c","o","r","r","e","c","t">>,
       score |-> 1000, label |-> "True", confidence |-> 900],
      [key |-> <<"a","c","c","u","r","a","t","e">>,
       score |-> 1000, label |-> "True", confidence |-> 900],
      [key |-> <<"v","e","r","i","f","i","e","d">>,
       score |-> 1000, label |-> "True", confidence |-> 900],
      [key |-> <<"m","o","s","t","l","y"," ","t","r","u","e">>,
       score |-> 800, label |-> "Mostly True", confidence |-> 800],
      [key |-> <<"m","o","s","t","l","y"," ","c","o","r","r","e","c","t">>,
       score |-> 800, label |-> "Mostly True", confidence |-> 800],
      [key |-> <<"l","a","r","g","e","l","y"," ","a","c","c","u","r","a","t","e">>,
       score |-> 800, label |-> "Mostly True", confidence |-> 800],
      [key |-> <<"m","i","x","t","u","r","e">>,
       score |-> 500, label |-> "Mixed", confidence |-> 700],
      [key |-> <<"h","a","l","f"," ","t","r","u","e">>,
       score |-> 500, label |-> "Mixed", confidence |-> 700],
      [key |-> <<"p","a","r","t","i","a","l","l","y"," ","t","r","u","e">>,
       score |-> 500, label |-> "Mixed", confidence |-> 700],
      [key |-> <<"s","o","m","e"," ","t","r","u","t","h">>,
       score |-> 500, label |-> "Mixed", confidence |-> 700],
      [key |-> <<"m","o","s","t","l","y"," ","f","a","l","s","e">>,
       score |-> 200, label |-> "Mostly False", confidence |-> 800],
      [key |-> <<"m","o","s","t","l","y"," ","i","n","c","o","r","r","e","c","t">>,
       score |-> 200, label |-> "Mostly False", confidence |-> 800],
      [key |-> <<"l","a","r","g","e","l","y"," ","i","n","a","c","c","u","r","a","t","e">>,
       score |-> 200, label |-> "Mostly False", confidence |-> 800],
      [key |-> <<"f","a","l","s","e">>,
       score |-> 0, label |-> "False", confidence |-> 900],
      [key |-> <<"i","n","c","o","r","r","e","c","t">>,
       score |-> 0, label |-> "False", confidence |-> 900],
      [key |-> <<"i","n","a","c","c","u","r","a","t","e">>,
       score |-> 0, label |-> "False", confidence |-> 900],
      [key |-> <<"d","e","b","u","n","k","e","d">>,
       score |-> 0, label |-> "False", confidence |-> 900],
      [key |-> <<"f","a","k","e">>,
       score |-> 0, label |-> "False", confidence |-> 900],
      [key |-> <<"h","o","a","x">>,
       score |-> 0, label |-> "False", confidence |-> 900],
      [key |-> <<"u","n","v","e","r","i","f","i","a","b","l","e">>,
       score |-> 300, label |-> "Unverifiable", confidence |-> 600],
      [key |-> <<"u","n","p","r","o","v","e","n">>,
       score |-> 300, label |-> "Unverifiable", confidence |-> 600],
      [key |-> <<"n","o"," ","e","v","i","d","e","n","c","e">>,
       score |-> 300, label |-> "Unverifiable", confidence |-> 600],
      [key |-> <<"s","a","t","i","r","e">>,
       score |-> 100, label |-> "Satire", confidence |-> 800],
      [key |-> <<"o","p","i","n","i","o","n">>,
       score |-> 400, label |-> "Opinion", confidence |-> 700],
      [key |-> <<"c","o","m","m","e","n","t","a","r","y">>,
       score |-> 400, label |-> "Opinion", confidence |-> 700]>>

Rating(score, label, confidence, text) ==
    [score |-> score, label |-> label, confidence |-> confidence, text |-> text]

\* _normalize_rating without rating_lower = textual_rating.lower()
normalize_rating_case_sensitive(textual_rating) ==
    IF textual_rating = <<>> THEN Rating(500, "Unknown", 0, <<>>)
    ELSE LET rating_lower == textual_rating
             exact   == {i \in 1..Len(rating_mappings) :
                            rating_mappings[i].key = rating_lower}
             partial == {i \in 1..Len(rating_mappings) :
                            \/ IsSubstring(rating_mappings[i].key, rating_lower)
                            \/ IsSubstring(rating_lower, rating_mappings[i].key)}
             first(S) == CHOOSE i \in S : \A j \in S : i <= j
             entry(i) == Rating(rating_mappings[i].score, rating_mappings[i].label,
                                rating_mappings[i].confidence, <<>>)
         IN  IF exact # {} THEN entry(first(exact))
             ELSE IF partial # {} THEN entry(first(partial))
             ELSE Rating(500, "Unknown (...)", 300, textual_rating)

\* _normalize_rating with the partial match taking the last matching key
normalize_rating_last_match(textual_rating) ==
    IF textual_rating = <<>> THEN Rating(500, "Unknown", 0, <<>>)
    ELSE LET rating_lower == Lower(textual_rating)
             exact   == {i \in 1..Len(rating_mappings) :
                            rating_mappings[i].key = rating_lower}
             partial == {i \in 1..Len(rating_mappings) :
                            \/ IsSubstring(rating_mappings[i].key, rating_lower)
                            \/ IsSubstring(rating_lower, rating_mappings[i].key)}
             last(S) == CHOOSE i \in S : \A j \in S : i >= j
             entry(i) == Rating(rating_mappings[i].score, rating_mappings[i].label,
                                rating_mappings[i].confidence, <<>>)
         IN  IF exact # {} THEN entry(last(exact))
             ELSE IF partial # {} THEN entry(last(partial))
             ELSE Rating(500, "Unknown (...)", 300, textual_rating)

\* ---- _normalize_rating ----
\* The label of the default is 'Unknown (<textual_rating>)': the record carries
\* the original text in its field text, which is empty for the other results.
normalize_rating(textual_rating) ==
    IF textual_rating = <<>> THEN Rating(500, "Unknown", 0, <<>>)
    ELSE LET rating_lower == Lower(textual_rating)
             exact   == {i \in 1..Len(rating_mappings) :
                            rating_mappings[i].key = rating_lower}
             partial == {i \in 1..Len(rating_mappings) :
                            \/ IsSubstring(rating_mappings[i].key, rating_lower)
                            \/ IsSubstring(rating_lower, rating_mappings[i].key)}
             first(S) == CHOOSE i \in S : \A j \in S : i <= j
             entry(i) == Rating(rating_mappings[i].score, rating_mappings[i].label,
                                rating_mappings[i].confidence, <<>>)
         IN  IF exact # {} THEN entry(first(exact))
             ELSE IF partial # {} THEN entry(first(partial))
             ELSE Rating(500, "Unknown (...)", 300, textual_rating)

\* ---- _process_claim ----  a claim of the API response, its reviews normalized
process_claim(claim) ==
    [claimant |-> claim.claimant,
     reviews  |-> [i \in 1..Len(claim.reviews) |->
                     [publisher_name    |-> claim.reviews[i].publisher_name,
                      textual_rating    |-> claim.reviews[i].textual_rating,
                      normalized_rating |->
                          normalize_rating(claim.reviews[i].textual_rating)]]]

\* ---- search_fact_checks ----
\* response is what the fact-check API answers for the query: "no_key" (the
\* API key is not configured), "request_error" (requests raises) or the
\* sequence of claims of the JSON body.
search_fact_checks(response) ==
    IF response.kind \in {"no_key", "request_error"}
    THEN [claims |-> <<>>, error |-> TRUE]
    ELSE [claims |-> [i \in 1..Len(response.claims) |-> process_claim(response.claims[i])],
          error  |-> FALSE]

RECURSIVE Flatten(_)
Flatten(ss) == IF ss = <<>> THEN <<>> ELSE Head(ss) \o Flatten(Tail(ss))

\* the reviews of all claims, in order (lines 178-183)
AllReviews(claims) == Flatten([i \in 1..Len(claims) |-> claims[i].reviews])

NoFactChecks(verdict) ==
    [empty |-> FALSE, overall_score |-> 500, confidence |-> 0, verdict |-> verdict,
     evidence_count |-> 0, source_diversity |-> 0, agreement_level |-> -1]

\* lines 225-235: the verdict of the unrounded overall_score num/den (in tenths)
fusion_verdict(num, den) ==
    IF num >= 8 * den THEN "Likely True"
    ELSE IF num >= 6 * den THEN "Leaning True"
    ELSE IF num >= 4 * den THEN "Mixed/Uncertain"
    ELSE IF num >= 2 * den THEN "Leaning False"
    ELSE "Likely False"

\* an unweighted mean of the scores
fusion_score_unweighted(s, w) ==
    [num |-> SumSeq(s), den |-> Len(s)]

\* lines 194-204: overall_score as the quotient num/den, from the scores s and
\* the weights w of the ratings (both in tenths)
fusion_score(s, w) ==
    LET total_weighted_score == SumSeq([i \in 1..Len(s) |-> s[i] * w[i]])
        total_weight == SumSeq(w)
    IN  IF total_weight > 0
        THEN [num |-> total_weighted_score, den |-> total_weight]
        ELSE [num |-> 5, den |-> 1]

\* the confidence with the share of distinct publishers among the reviews in
\* place of source_diversity / 5
fusion_confidence_by_share(evidence_count, source_diversity, agreement300, B) ==
    Min(1000, DivRound(40 * evidence_count * B
                         + (300 * source_diversity * B) \div evidence_count
                         + agreement300, B))

\* lines 219-223 and 239: the confidence in thousandths, rounded, from the
\* agreement given as agreement300 / (300 * B)
fusion_confidence(evidence_count, source_diversity, agreement300, B) ==
    Min(1000, DivRound((40 * evidence_count + 60 * source_diversity) * B
                          + agreement300, B))

\* ---- analyze_claim_credibility ----
\* Every normalized score and confidence is a multiple of 0.1, so the sums are
\* taken in tenths (s, w below).  overall_score is the quotient num/den in
\* tenths; the variance is taken about it, unrounded:
\*   variance = A / (100 * B)  with  A = sum (s*den - num)^2,  B = n * den^2.
\* The fields agreement_num and agreement_den are not in the code's result:
\* they keep the agreement before it is rounded, as a fraction in lowest terms.
analyze_claim_credibility(claims_data) ==
    IF claims_data.claims = <<>> THEN NoFactChecks("No fact checks found")
    ELSE
    LET reviews == AllReviews(claims_data.claims)
        n == Len(reviews)
        s == [i \in 1..n |-> reviews[i].normalized_rating.score \div 100]
        w == [i \in 1..n |-> reviews[i].normalized_rating.confidence \div 100]
        publishers == {reviews[i].publisher_name : i \in 1..n}
        num == fusion_score(s, w).num
        den == fusion_score(s, w).den
        source_diversity == Cardinality(publishers)
        evidence_count == n
        A == SumSeq([i \in 1..n |-> (s[i] * den - num) * (s[i] * den - num)])
        B == n * den * den
        \* 300 * agreement, as a numerator over B
        agreement300 == IF n > 1 THEN Max(0, 300 * B - 12 * A) ELSE 300 * B
        overall_score == DivRound(100 * num, den)
    IN  IF n = 0 THEN NoFactChecks("No valid ratings found")
        ELSE [empty |-> FALSE,
              overall_score    |-> overall_score,
              confidence       |-> fusion_confidence(evidence_count, source_diversity,
                                                     agreement300, B),
              verdict          |-> fusion_verdict(num, den),
              evidence_count   |-> evidence_count,
              source_diversity |-> source_diversity,
              agreement_level  |-> DivRound(10 * agreement300, 3 * B),
              agreement_num    |-> agreement300 \div GCD(agreement300, 300 * B),
              agreement_den    |-> (300 * B) \div GCD(agreement300, 300 * B)]

\* ---- get_fact_check_summary ----
get_fact_check_summary(response) ==
    LET claims_data == search_fact_checks(response)
    IN  [fact_check_results   |-> claims_data,
         credibility_analysis |-> analyze_claim_credibility(claims_data)]

----------------------------------------------------------------------------
(* NewsAnalysisEngine *)

\* ---- _score_to_verdict ----  the verdict of the unrounded score num/den
\* (in thousandths)
score_to_verdict(num, den) ==
    IF num >= 800 * den THEN "Likely True"
    ELSE IF num >= 600 * den THEN "Leaning True"
    ELSE IF num >= 400 * den THEN "Mixed Evidence"
    ELSE IF num >= 200 * den THEN "Leaning False"
    ELSE "Likely False"

\* ---- _combine_factcheck_results ----
\* every per-query summary carries an overall_score, so all_scores has one
\* entry per result.  The two quotients are kept to the nearest thousandth.
combine_factcheck_results(results_list) ==
    LET k == Len(results_list)
        all_claims == Flatten([i \in 1..k |-> results_list[i].fact_check_results.claims])
        all_scores == [i \in 1..k |-> results_list[i].credibility_analysis.overall_score]
        all_confidences == [i \in 1..k |-> results_list[i].credibility_analysis.confidence]
        weighted == SumSeq([i \in 1..k |-> all_scores[i] * all_confidences[i]])
        total_weight == SumSeq(all_confidences)
        num == IF k = 0 THEN 500
               ELSE IF total_weight > 0 THEN weighted ELSE SumSeq(all_scores)
        den == IF k = 0 THEN 1
               ELSE IF total_weight > 0 THEN total_weight ELSE k
        overall_confidence ==
               IF k = 0 THEN 0
               ELSE IF total_weight > 0 THEN DivRound(total_weight, k) ELSE 300
    IN  [empty  |-> FALSE,
         error  |-> FALSE,
         claims |-> all_claims,
         credibility_analysis |->
            [empty |-> FALSE,
             overall_score    |-> DivRound(num, den),
             confidence       |-> Min(1000, overall_confidence),
             verdict          |-> score_to_verdict(num, den),
             evidence_count   |-> Len(all_claims),
             source_diversity |->
                 Cardinality({all_claims[i].claimant : i \in 1..Len(all_claims)}),
             agreement_level  |-> -1]]

\* lines 222-229 and 233-241: the two results built without fusion
NoFactcheckResult(error, verdict) ==
    [empty  |-> FALSE,
     error  |-> error,
     claims |-> <<>>,
     credibility_analysis |->
        [empty |-> FALSE, overall_score |-> 500, confidence |-> 0, verdict |-> verdict,
         evidence_count |-> -1, source_diversity |-> -1, agreement_level |-> -1]]

\* ---- _get_ml_prediction ----
\* outcome is what FakeNewsDetector.predict does: it raises, or returns a label
\* ('real' or 'fake') with a confidence
get_ml_prediction(outcome) ==
    IF outcome.kind = "raise"
    THEN [empty |-> FALSE, is_str |-> FALSE, prediction |-> "", number |-> 500,
          confidence |-> 0, error |-> TRUE]
    ELSE [empty |-> FALSE, is_str |-> TRUE, prediction |-> outcome.prediction,
          number |-> 0, confidence |-> outcome.confidence, error |-> FALSE]

NoPoserAnalysis == [empty |-> TRUE]

\* ---- _get_poser_analysis ----
\* outcome is what FacebookService.analyze_account_activity returns: an error
\* dictionary, or the account's poser_analysis
get_poser_analysis(data, outcome) ==
    IF data.facebook_in /\ data.page_match /\ outcome.kind = "ok"
    THEN [empty |-> FALSE, error |-> FALSE,
          poser_analysis |-> [empty |-> FALSE, risk_level |-> outcome.risk_level,
                              is_verified |-> outcome.is_verified]]
    ELSE [empty |-> FALSE, error |-> TRUE, poser_analysis |-> NoPoserAnalysis]

\* ---- _assess_source_credibility ----
assess_source_credibility(data, type) ==
    [empty  |-> FALSE,
     type   |-> type,
     domain |-> IF type \in {"url", "facebook_url"} THEN data.netloc ELSE <<>>]

\* ---- _detect_input_type ----
\* _detect_input_type with the test for 'facebook.com' made before _is_url
detect_input_type_facebook_first(data) ==
    IF data.facebook_in THEN "facebook_url"
    ELSE IF data.is_url THEN "url"
    ELSE IF data.is_post_id THEN "facebook_post_id"
    ELSE "text"

detect_input_type(data) ==
    IF data.is_url
    THEN (IF data.facebook_in THEN "facebook_url" ELSE "url")
    ELSE IF data.is_post_id THEN "facebook_post_id"
    ELSE "text"

----------------------------------------------------------------------------
(* The inputs and the collaborators' answers the model draws from *)

MaxPhrases == 2     \* key phrases the extractor finds in a text of the model
MaxReviews == 2     \* reviews of a claim in a fact-check answer of the model

MaxCalls == 3       \* calls of the aggregator on one scorer

MinContentLength == 10   \* analyze_news: len(text_content.strip()) < 10
MaxQueries == 3          \* _get_factcheck_results: key_phrases[:3]

\* A text by what the code reads of it: its length and its stripped length.
Text(what, len, strip_len) == [what |-> what, len |-> len, strip_len |-> strip_len]

\* An input by what the code reads of it:
\*   is_url        _is_url(input_data.strip())
\*   is_post_id    re.match(r'^\d+_\d+$', input_data.strip())
\*   facebook_in   'facebook.com' in input_data
\*   page_match    re.search(r'facebook\.com/([^/]+)', input_data)
\*   post_id_match _extract_facebook_post_id(input_data) is not None
\*   netloc        urlparse(input_data).netloc.lower()
Input(text, is_url, is_post_id, facebook_in, page_match, post_id_match, netloc) ==
    [text |-> text, is_url |-> is_url, is_post_id |-> is_post_id,
     facebook_in |-> facebook_in, page_match |-> page_match,
     post_id_match |-> post_id_match, netloc |-> netloc]

Inputs ==
    { Input(Text("article", 60, 60), FALSE, FALSE, FALSE, FALSE, FALSE, <<>>),
      Input(Text("few words", 9, 9), FALSE, FALSE, FALSE, FALSE, FALSE, <<>>),
      Input(Text("blanks", 12, 0), FALSE, FALSE, FALSE, FALSE, FALSE, <<>>),
      Input(Text("empty", 0, 0), FALSE, FALSE, FALSE, FALSE, FALSE, <<>>),
      Input(Text("text naming facebook.com/page", 60, 60),
            FALSE, FALSE, TRUE, TRUE, FALSE, <<>>),
      Input(Text("https://bbc.com/news/1", 22, 22), TRUE, FALSE, FALSE, FALSE, FALSE,
            <<"b","b","c",".","c","o","m">>),
      Input(Text("https://x.gov/report", 20, 20), TRUE, FALSE, FALSE, FALSE, FALSE,
            <<"x",".","g","o","v">>),
      Input(Text("https://unknown.com/a", 21, 21), TRUE, FALSE, FALSE, FALSE, FALSE,
            <<"u","n","k","n","o","w","n",".","c","o","m">>),
      Input(Text("https://www.facebook.com/page/posts/123", 39, 39),
            TRUE, FALSE, TRUE, TRUE, TRUE,
            <<"w","w","w",".","f","a","c","e","b","o","o","k",".","c","o","m">>),
      Input(Text("https://www.facebook.com/page", 29, 29),
            TRUE, FALSE, TRUE, TRUE, FALSE,
            <<"w","w","w",".","f","a","c","e","b","o","o","k",".","c","o","m">>),
      Input(Text("123_456", 7, 7), FALSE, TRUE, FALSE, FALSE, FALSE, <<>>) }

\* the input_type argument: 'auto' (the default), or a type the caller declares
\* the requests: every input with input_type 'auto' (the default), and inputs
\* whose type the caller declares
Requests ==
    {<<i, "auto">> : i \in Inputs}
    \cup {<<i, "text">> : i \in {j \in Inputs : j.is_url /\ ~j.facebook_in /\ j.netloc[1] = "b"}}
    \cup {<<i, "facebook">> : i \in {j \in Inputs : j.post_id_match}}
    \cup {<<i, "facebook_url">> : i \in {j \in Inputs : j.is_post_id}}

\* what the page-text extractor and the social platform return as content
ExtractedTexts ==
    { Text("page text", 80, 80), Text("empty", 0, 0), Text("stub", 4, 4) }

\* the answers of TextPreprocessor.preprocess (fake_indicators and
\* slang_detected by their lengths)
Flags(fake, sarcastic, sarcasm_confidence, slang, tokens) ==
    [empty |-> FALSE, fake_indicators |-> fake, is_sarcastic |-> sarcastic,
     sarcasm_confidence |-> sarcasm_confidence, slang_detected |-> slang,
     token_count |-> tokens]

PreprocessResults ==
    { Flags(2, FALSE, 0, 0, 12),
      Flags(7, TRUE, 1000, 4, 5),
      Flags(0, TRUE, 500, 0, 1001) }

PredictOutcomes ==
    { [kind |-> "raise"],
      [kind |-> "ok", prediction |-> "real", confidence |-> 1000],
      [kind |-> "ok", prediction |-> "fake", confidence |-> 900] }

\* texts of textualRating
RatingTrue  == <<"T","r","u","e">>
RatingFalse == <<"F","A","L","S","E">>
RatingOther == <<"P","a","n","t","s"," ","o","n"," ","F","i","r","e">>
RatingHalf  == <<"M","o","s","t","l","y"," ","t","r","u","e","!">>

Publishers == <<"Publisher A", "Publisher B", "Publisher C", "Publisher D">>

Review(publisher, rating) == [publisher_name |-> publisher, textual_rating |-> rating]

Claim(claimant, reviews) == [claimant |-> claimant, reviews |-> reviews]

\* r reviews by r publishers, rated alternately first and second
ReviewList(r, first, second) ==
    [i \in 1..r |-> Review(Publishers[((i - 1) % Len(Publishers)) + 1],
                           IF i % 2 = 1 THEN first ELSE second)]

\* the answers of the fact-check API to one query
FactCheckResponses ==
    { [kind |-> "no_key"], [kind |-> "request_error"], [kind |-> "raise"],
      [kind |-> "ok", claims |-> <<>>],
      [kind |-> "ok", claims |-> <<Claim("someone", <<Review("Publisher A", <<>>)>>)>>] }
    \cup { [kind |-> "ok",
             claims |-> <<Claim("someone", ReviewList(MaxReviews, RatingFalse, RatingFalse))>>],
           [kind |-> "ok",
             claims |-> <<Claim("someone else", ReviewList(MaxReviews, RatingTrue, RatingOther)),
                          Claim("someone", ReviewList(1, RatingHalf, RatingHalf))>>] }

PoserOutcomes ==
    { [kind |-> "error"],
      [kind |-> "ok", risk_level |-> "LOW", is_verified |-> TRUE],
      [kind |-> "ok", risk_level |-> "HIGH", is_verified |-> FALSE] }

----------------------------------------------------------------------------
(* analyze_news, step by step *)

NoExplanation == [factors |-> <<>>, note |-> ""]

\* lines 45-58
\* the result record with a source_info of unknown type filled in from the start
InitialResults_with_source(data, type) ==
    [input_text |-> data.text,
     input_type |-> type,
     preprocessing_results |-> EmptyDict,
     ml_prediction |-> EmptyDict,
     factcheck_results |-> EmptyDict,
     poser_analysis |-> EmptyDict,
     source_info |-> [empty |-> FALSE, type |-> "unknown", domain |-> <<>>],
     final_credibility_score |-> 500,
     verdict |-> "Unknown",
     confidence |-> 0,
     explanation |-> NoExplanation,
     extracted_text |-> "unset",
     component_scores |-> "unset",
     error |-> "none",
     analysis_id |-> "unset"]

InitialResults(data, type) ==
    [input_text |-> data.text,
     input_type |-> type,
     preprocessing_results |-> EmptyDict,
     ml_prediction |-> EmptyDict,
     factcheck_results |-> EmptyDict,
     poser_analysis |-> EmptyDict,
     source_info |-> EmptyDict,
     final_credibility_score |-> 500,
     verdict |-> "Unknown",
     confidence |-> 0,
     explanation |-> NoExplanation,
     extracted_text |-> "unset",
     component_scores |-> "unset",
     error |-> "none",
     analysis_id |-> "unset"]

\* ---- _create_error_result ----
create_error_result(error_message, partial_results) ==
    [partial_results EXCEPT
        !.error = error_message,
        !.final_credibility_score = 500,
        !.verdict = "Analysis Failed",
        !.confidence = 0,
        !.explanation = [factors |-> <<>>, note |-> error_message]]

Call(op, arg) == [op |-> op, arg |-> arg]

NoAssessment == [verdict |-> "unset"]

NoSignals == [c \in ComponentSet |-> Signal(0, 0)]

Init ==
    /\ pc = "start"
    /\ \E r \in Requests : input_data = r[1] /\ input_type = r[2]
    /\ user_id \in BOOLEAN
    /\ db \in BOOLEAN
    /\ analysis_results = EmptyDict
    /\ processed_text = "unset"
    /\ calls = <<>>
    /\ weights = InitWeights
    /\ component_scores = NoSignals
    /\ assessment = NoAssessment
    /\ key_phrases = 0
    /\ all_results = <<>>

\* lines 40-58
Start ==
    /\ pc = "start"
    /\ LET type == IF input_type = "auto" THEN detect_input_type(input_data)
                   ELSE input_type
       IN  /\ input_type' = type
           /\ analysis_results' = InitialResults(input_data, type)
    /\ pc' = "extract"
    /\ UNCHANGED <<input_data, user_id, db, processed_text, calls, weights,
                   component_scores, assessment, key_phrases, all_results>>

\* line 65 with only its first half: not text_content
insufficient_content_empty_only(text_content) ==
    text_content.len = 0

\* line 65: not text_content or len(text_content.strip()) < 10
insufficient_content(text_content) ==
    text_content.len = 0 \/ text_content.strip_len < MinContentLength

\* lines 62-66: the extracted text is stored; too little content ends the request
Extracted(text_content, made) ==
    LET stored == [analysis_results EXCEPT !.extracted_text = text_content]
    IN  /\ calls' = calls \o made
        /\ IF insufficient_content(text_content)
           THEN /\ analysis_results' =
                      create_error_result("Insufficient text content for analysis", stored)
                /\ pc' = "done"
           ELSE /\ analysis_results' = stored
                /\ pc' = "preprocess"
        /\ UNCHANGED <<input_data, input_type, user_id, db, processed_text, weights,
                       component_scores, assessment, key_phrases, all_results>>

\* _extract_text_content, lines 148-149 and 169
ExtractVerbatim ==
    /\ pc = "extract"
    /\ input_type \notin {"url", "facebook_url", "facebook_post_id"}
    /\ Extracted(input_data.text, <<>>)

\* _extract_text_content, lines 151-152
ExtractFromUrl ==
    /\ pc = "extract"
    /\ input_type = "url"
    /\ \E t \in ExtractedTexts :
          Extracted(t, <<Call("extract_text_from_url", input_data.text)>>)

\* what get_post_details answers: an error, or a post with its message or story
PostAnswers == {[kind |-> "error"]} \cup {[kind |-> "ok", text |-> t] : t \in ExtractedTexts}

\* _extract_text_content, lines 154-161
ExtractFacebookUrl ==
    /\ pc = "extract"
    /\ input_type = "facebook_url"
    /\ IF input_data.post_id_match
       THEN \E a \in PostAnswers :
               Extracted(IF a.kind = "ok" THEN a.text
                         ELSE Text("Could not extract Facebook post content", 39, 39),
                         <<Call("get_post_details", input_data.text)>>)
       ELSE Extracted(Text("Could not extract Facebook post content", 39, 39), <<>>)

\* _extract_text_content, lines 163-167
ExtractFacebookPostId ==
    /\ pc = "extract"
    /\ input_type = "facebook_post_id"
    /\ \E a \in PostAnswers :
          Extracted(IF a.kind = "ok" THEN a.text
                    ELSE Text("Could not fetch Facebook post", 29, 29),
                    <<Call("get_post_details", input_data.text)>>)

\* lines 116-118: an exception that reaches analyze_news ends the request
Failed(made) ==
    /\ calls' = calls \o made
    /\ analysis_results' = create_error_result("Analysis failed", analysis_results)
    /\ pc' = "done"

\* TextPreprocessor.preprocess: it returns its flags and the processed text, or raises
preprocess(text_content, outcome) ==
    IF outcome.kind = "raise" THEN [raised |-> TRUE]
    ELSE [raised |-> FALSE,
          preprocessing_results |-> outcome.flags,
          processed_text |-> [what |-> "processed text", of |-> text_content]]

PreprocessOutcomes ==
    {[kind |-> "raise"]} \cup {[kind |-> "ok", flags |-> f] : f \in PreprocessResults}

\* lines 68-74
Preprocess ==
    /\ pc = "preprocess"
    /\ \E outcome \in PreprocessOutcomes :
          LET r == preprocess(analysis_results.extracted_text, outcome)
              made == <<Call("preprocess", analysis_results.extracted_text)>>
          IN  IF r.raised
              THEN /\ Failed(made)
                   /\ UNCHANGED processed_text
              ELSE /\ calls' = calls \o made
                   /\ analysis_results' =
                         [analysis_results EXCEPT
                             !.preprocessing_results = r.preprocessing_results]
                   /\ processed_text' = r.processed_text
                   /\ pc' = "ml"
    /\ UNCHANGED <<input_data, input_type, user_id, db, weights, component_scores,
                   assessment, key_phrases, all_results>>

\* line 77: the text handed to the classifier
classifier_input(text_content, processed) == processed

\* lines 76-78
MlPrediction ==
    /\ pc = "ml"
    /\ \E outcome \in PredictOutcomes :
          analysis_results' =
             [analysis_results EXCEPT !.ml_prediction = get_ml_prediction(outcome)]
    /\ calls' = Append(calls, Call("predict",
                     classifier_input(analysis_results.extracted_text, processed_text)))
    /\ pc' = "key_phrases"
    /\ UNCHANGED <<input_data, input_type, user_id, db, processed_text, weights,
                   component_scores, assessment, key_phrases, all_results>>

\* _get_factcheck_results, lines 210-212: the key phrases of the text (their number)
ExtractKeyPhrases ==
    /\ pc = "key_phrases"
    /\ \E n \in 0..MaxPhrases : key_phrases' = n
    /\ all_results' = <<>>
    /\ pc' = "query"
    /\ UNCHANGED <<input_data, input_type, user_id, db, analysis_results,
                   processed_text, calls, weights, component_scores, assessment>>

QueriesMade == Cardinality({i \in 1..Len(calls) : calls[i].op = "get_fact_check_summary"})

\* _get_factcheck_results, lines 213-216 and 231-241: one query of the loop
FactCheckQuery ==
    /\ pc = "query"
    /\ QueriesMade < Min(MaxQueries, key_phrases)
    /\ calls' = Append(calls, Call("get_fact_check_summary", QueriesMade + 1))
    /\ \E response \in FactCheckResponses :
          IF response.kind = "raise"
          THEN /\ analysis_results' =
                     [analysis_results EXCEPT
                         !.factcheck_results = NoFactcheckResult(TRUE, "Fact check failed")]
               /\ all_results' = <<>>
               /\ pc' = "poser"
          ELSE LET result == get_fact_check_summary(response)
               IN  /\ all_results' = IF ~result.fact_check_results.error
                                     THEN Append(all_results, result)
                                     ELSE all_results
                   /\ UNCHANGED analysis_results
                   /\ pc' = "query"
    /\ UNCHANGED <<input_data, input_type, user_id, db, processed_text, weights,
                   component_scores, assessment, key_phrases>>

\* _get_factcheck_results, lines 218-229, and analyze_news, line 82
FactCheckReturn ==
    /\ pc = "query"
    /\ QueriesMade >= Min(MaxQueries, key_phrases)
    /\ analysis_results' =
          [analysis_results EXCEPT
              !.factcheck_results =
                  IF all_results # <<>> THEN combine_factcheck_results(all_results)
                  ELSE NoFactcheckResult(FALSE, "No fact checks found")]
    /\ all_results' = <<>>
    /\ pc' = "poser"
    /\ UNCHANGED <<input_data, input_type, user_id, db, processed_text, calls, weights,
                   component_scores, assessment, key_phrases>>

\* line 85
PoserWanted == input_type = "facebook_url" \/ input_data.facebook_in

\* lines 84-87
PoserAnalysis ==
    /\ pc = "poser"
    /\ PoserWanted
    /\ \E outcome \in PoserOutcomes :
          analysis_results' =
             [analysis_results EXCEPT
                 !.poser_analysis = get_poser_analysis(input_data, outcome)]
    /\ calls' = IF input_data.facebook_in /\ input_data.page_match
                THEN Append(calls, Call("analyze_account_activity", input_data.text))
                ELSE calls
    /\ pc' = "source"
    /\ UNCHANGED <<input_data, input_type, user_id, db, processed_text, weights,
                   component_scores, assessment, key_phrases, all_results>>

SkipPoserAnalysis ==
    /\ pc = "poser"
    /\ ~PoserWanted
    /\ pc' = "source"
    /\ UNCHANGED <<input_data, input_type, user_id, db, analysis_results,
                   processed_text, calls, weights, component_scores, assessment,
                   key_phrases, all_results>>

\* lines 89-91
AssessSource ==
    /\ pc = "source"
    /\ analysis_results' =
          [analysis_results EXCEPT
              !.source_info = assess_source_credibility(input_data, input_type)]
    /\ pc' = "score"
    /\ UNCHANGED <<input_data, input_type, user_id, db, processed_text, calls, weights,
                   component_scores, assessment, key_phrases, all_results>>

\* lines 93-107
Score ==
    /\ pc = "score"
    /\ assessment' = calculate_credibility_score(analysis_results, weights)
    /\ component_scores' = assessment'.component_scores
    /\ analysis_results' =
          [analysis_results EXCEPT
              !.final_credibility_score = assessment'.final_score,
              !.verdict = assessment'.verdict,
              !.confidence = assessment'.confidence,
              !.explanation = assessment'.explanation,
              !.component_scores = assessment'.component_scores]
    /\ pc' = "save"
    /\ UNCHANGED <<input_data, input_type, user_id, db, processed_text, calls, weights,
                   key_phrases, all_results>>

\* save_analysis_result without its try/except: a failure of the store raises
save_analysis_result_raising(connected, stored) ==
    IF ~connected THEN [raised |-> FALSE, analysis_id |-> "None"]
    ELSE IF stored THEN [raised |-> FALSE, analysis_id |-> "document id"]
    ELSE [raised |-> TRUE]

\* ---- FirebaseService.save_analysis_result ----
\* stored is whether Firestore takes the document; an exception of the store
\* is caught (lines 154-156) and None is returned
save_analysis_result(connected, stored) ==
    IF ~connected THEN [raised |-> FALSE, analysis_id |-> "None"]
    ELSE IF stored THEN [raised |-> FALSE, analysis_id |-> "document id"]
    ELSE [raised |-> FALSE, analysis_id |-> "None"]

\* lines 109-114
Save ==
    /\ pc = "save"
    /\ user_id /\ db
    /\ \E stored \in BOOLEAN :
          LET r == save_analysis_result(db, stored)
              made == <<Call("save_analysis_result", stored)>>
          IN  IF r.raised
              THEN Failed(made)
              ELSE /\ calls' = calls \o made
                   /\ analysis_results' =
                         [analysis_results EXCEPT !.analysis_id = r.analysis_id]
                   /\ pc' = "done"
    /\ UNCHANGED <<input_data, input_type, user_id, db, processed_text, weights,
                   component_scores, assessment, key_phrases, all_results>>

Return ==
    /\ pc = "save"
    /\ ~(user_id /\ db)
    /\ pc' = "done"
    /\ UNCHANGED <<input_data, input_type, user_id, db, analysis_results,
                   processed_text, calls, weights, component_scores, assessment,
                   key_phrases, all_results>>

Next ==
    \/ Start
    \/ ExtractVerbatim
    \/ ExtractFromUrl
    \/ ExtractFacebookUrl
    \/ ExtractFacebookPostId
    \/ Preprocess
    \/ MlPrediction
    \/ ExtractKeyPhrases
    \/ FactCheckQuery
    \/ FactCheckReturn
    \/ PoserAnalysis
    \/ SkipPoserAnalysis
    \/ AssessSource
    \/ Score
    \/ Save
    \/ Return

Spec == Init /\ [][Next]_vars

----------------------------------------------------------------------------
(* The aggregation alone: calculate_credibility_score from its five signals on *)

\* the values a signal takes in this specification
SignalValues ==
    { Signal(800, 750), Signal(800, 650), Signal(500, 0), Signal(0, 900),
      Signal(333, 1000), Signal(1000, 1000) }

\* five equal signals of score 0.8, by their confidence
UniformConfidences == {0, 150, 199, 200, 550, 599, 600, 650, 750, 1000}

Uniform(s, c) == [x \in ComponentSet |-> Signal(s, c)]

\* the signals of a text whose classifier says real with confidence 0.9, with
\* one review rated true, no account and no domain, and with six or more
\* fake-news indicators (text-flag score clamped to 0.0), three, or none
FlaggedTextInputs ==
    { [ml_prediction       |-> Signal(1000, 900),
       factcheck_results   |-> Signal(1000, 400),
       poser_detection     |-> Signal(700, 0),
       preprocessing_flags |-> Signal(s, 500),
       source_credibility  |-> Signal(500, 400)] : s \in {0, 300, 600} }

SignalInputs ==
    [ComponentSet -> SignalValues] \cup {Uniform(800, c) : c \in UniformConfidences}
        \cup FlaggedTextInputs

\* the signals of a second and later call on the same scorer
LaterInputs == {Uniform(800, 650), Uniform(500, 0), Uniform(333, 1000)}

Idle ==
    /\ input_data = "none"
    /\ input_type = "none"
    /\ user_id = FALSE
    /\ db = FALSE
    /\ analysis_results = EmptyDict
    /\ processed_text = "unset"
    /\ key_phrases = 0
    /\ all_results = <<>>

InitAggregate ==
    /\ Idle
    /\ pc = "aggregate"
    /\ calls = <<>>
    /\ weights = InitWeights
    /\ component_scores \in SignalInputs
    /\ assessment = NoAssessment

\* lines 35-79 on the signals drawn
Aggregate ==
    /\ pc = "aggregate"
    /\ assessment' = aggregate(component_scores, weights)
    /\ calls' = Append(calls, Call("aggregate", "signals"))
    /\ pc' = "aggregated"
    /\ UNCHANGED <<input_data, input_type, user_id, db, analysis_results,
                   processed_text, weights, component_scores, key_phrases, all_results>>

\* a further call on the same scorer
AggregateAgain ==
    /\ pc = "aggregated"
    /\ Len(calls) < MaxCalls
    /\ \E cs \in LaterInputs :
          /\ component_scores' = cs
          /\ assessment' = aggregate(cs, weights)
    /\ calls' = Append(calls, Call("aggregate", "signals"))
    /\ UNCHANGED <<pc, input_data, input_type, user_id, db, analysis_results,
                   processed_text, weights, key_phrases, all_results>>

NextAggregate == Aggregate \/ AggregateAgain

SpecAggregate == InitAggregate /\ [][NextAggregate]_vars

----------------------------------------------------------------------------
(* _determine_verdict alone *)

\* scores and confidences in units of 1/100000: the thresholds, the values
\* next to them and values between
VerdictGrid ==
    {0, 1, 10000, 19999, 20000, 20001, 25000, 29999, 30000, 30001, 39999, 40000,
     40001, 45000, 49999, 50000, 50001, 59999, 60000, 60001, 65000, 69999, 70000,
     70001, 79999, 80000, 80001, 90000, 100000}

InitVerdict ==
    /\ Idle
    /\ pc = "verdict"
    /\ calls = <<>>
    /\ weights = InitWeights
    /\ component_scores = NoSignals
    /\ \E s \in VerdictGrid, c \in VerdictGrid :
          assessment = [raw_score |-> s, raw_confidence |-> c, verdict |-> "unset"]

DetermineVerdict ==
    /\ pc = "verdict"
    /\ assessment' =
          [assessment EXCEPT
              !.verdict = determine_verdict(assessment.raw_score, assessment.raw_confidence)]
    /\ pc' = "verdict returned"
    /\ UNCHANGED <<input_data, input_type, user_id, db, analysis_results,
                   processed_text, calls, weights, component_scores, key_phrases,
                   all_results>>

NextVerdict == DetermineVerdict

SpecVerdict == InitVerdict /\ [][NextVerdict]_vars

----------------------------------------------------------------------------
(* _normalize_rating alone *)

\* str.upper(), for the rating texts of this specification
UpperChar(c) ==
    IF \E i \in 1..Len(LowerCase) : LowerCase[i] = c
    THEN UpperCase[CHOOSE i \in 1..Len(LowerCase) : LowerCase[i] = c]
    ELSE c

Upper(s) == [i \in 1..Len(s) |-> UpperChar(s[i])]

Capitalized(s) == [i \in 1..Len(s) |-> IF i = 1 THEN UpperChar(s[i]) ELSE s[i]]

RatingKeys == {rating_mappings[i].key : i \in 1..Len(rating_mappings)}

\* the rating texts: none, every table key in three spellings, every key
\* inside a longer text, the beginning of every key, and texts no key matches
RatingTexts ==
    {<<>>, RatingOther, RatingHalf, <<"?">>, <<"F","o","u","r"," ","P","i","n","o","c","c","h","i","o","s">>}
    \cup RatingKeys
    \cup {Upper(k) : k \in RatingKeys}
    \cup {Capitalized(k) : k \in RatingKeys}
    \cup {Capitalized(k) \o <<"!">> : k \in RatingKeys}
    \cup {<<"N","o","t"," ">> \o k : k \in RatingKeys}
    \cup {SubSeq(Capitalized(k), 1, 3) : k \in RatingKeys}

InitNormalize ==
    /\ Idle
    /\ pc = "normalize"
    /\ calls = <<>>
    /\ weights = InitWeights
    /\ component_scores = NoSignals
    /\ \E r \in RatingTexts : assessment = [textual_rating |-> r]

NormalizeRating ==
    /\ pc = "normalize"
    /\ assessment' =
          [textual_rating |-> assessment.textual_rating,
           normalized_rating |-> normalize_rating(assessment.textual_rating)]
    /\ pc' = "normalized"
    /\ UNCHANGED <<input_data, input_type, user_id, db, analysis_results,
                   processed_text, calls, weights, component_scores, key_phrases,
                   all_results>>

NextNormalize == NormalizeRating

SpecNormalize == InitNormalize /\ [][NextNormalize]_vars

----------------------------------------------------------------------------
(* analyze_claim_credibility alone, on one claim list and then on another *)

RatingMostlyTrue == <<"M","o","s","t","l","y"," ","T","r","u","e">>

\* the rating texts of the reviews: scores and confidences 1.0/0.9, 0.0/0.9,
\* 0.8/0.8, 0.5/0.3 and 0.5/0.0
FuseRatings == <<RatingTrue, RatingFalse, RatingMostlyTrue, RatingOther, <<>> >>

\* n reviews with the ratings chosen by pick, by n publishers or by one
ReviewsBy(n, pick, distinct) ==
    [i \in 1..n |-> Review(IF distinct THEN Publishers[((i - 1) % Len(Publishers)) + 1]
                           ELSE Publishers[1],
                           FuseRatings[pick[i]])]

\* the claim lists given to analyze_claim_credibility: none, a claim without
\* reviews, and a claim with up to MaxReviews + 1 reviews
FuseInputs ==
    { <<>>, <<Claim("someone", <<>>)>> }
    \cup UNION { { <<Claim("someone", ReviewsBy(n, pick, distinct))>> :
                      pick \in [1..n -> 1..Len(FuseRatings)], distinct \in BOOLEAN } :
                   n \in 1..(MaxReviews + 1) }

\* the claim lists of the second call: one rating throughout, in growing
\* numbers of reviews and publishers, and mixed ratings
LaterFuseInputs ==
    { <<Claim("someone", ReviewsBy(n, [i \in 1..n |-> 1], distinct))>> :
         n \in {1, 2, 3, 12}, distinct \in BOOLEAN }
    \cup { <<Claim("someone", ReviewsBy(2, <<1, 3>>, TRUE)),
             Claim("someone else", ReviewsBy(1, <<4>>, FALSE))>>,
           <<Claim("someone", ReviewsBy(2, <<5, 5>>, TRUE))>>,
           <<>> }

Fused(claims) ==
    [claims |-> claims,
     credibility_analysis |->
         analyze_claim_credibility(search_fact_checks([kind |-> "ok", claims |-> claims]))]

InitFuse ==
    /\ Idle
    /\ pc = "fuse"
    /\ calls = <<>>
    /\ weights = InitWeights
    /\ component_scores = NoSignals
    /\ \E c \in FuseInputs : assessment = [claims |-> c]

Fuse ==
    /\ pc = "fuse"
    /\ all_results' = Append(all_results, Fused(assessment.claims))
    /\ pc' = "fused"
    /\ UNCHANGED <<input_data, input_type, user_id, db, analysis_results,
                   processed_text, calls, weights, component_scores, assessment,
                   key_phrases>>

\* a second call, on another claim list
FuseAnother ==
    /\ pc = "fused"
    /\ Len(all_results) = 1
    /\ \E c \in LaterFuseInputs :
          /\ assessment' = [claims |-> c]
          /\ all_results' = Append(all_results, Fused(c))
    /\ UNCHANGED <<pc, input_data, input_type, user_id, db, analysis_results,
                   processed_text, calls, weights, component_scores, key_phrases>>

NextFuse == Fuse \/ FuseAnother

SpecFuse == InitFuse /\ [][NextFuse]_vars

----------------------------------------------------------------------------
(* _detect_input_type alone, on inputs spelled out as texts *)

Digits == {"0", "1", "2", "3", "4", "5", "6", "7", "8", "9"}

Letters ==
    {LowerCase[i] : i \in 1..Len(LowerCase)} \cup {UpperCase[i] : i \in 1..Len(UpperCase)}

\* urllib.parse: scheme_chars
SchemeChars == Letters \cup Digits \cup {"+", "-", "."}

Whitespace == {" "}

RECURSIVE LStrip(_)
LStrip(s) == IF s # <<>> /\ Head(s) \in Whitespace THEN LStrip(Tail(s)) ELSE s

RECURSIVE RStrip(_)
RStrip(s) ==
    IF s # <<>> /\ s[Len(s)] \in Whitespace THEN RStrip(SubSeq(s, 1, Len(s) - 1)) ELSE s

\* str.strip()
Strip(s) == RStrip(LStrip(s))

\* the first position of s that holds a character of S, or 0
FirstIndex(s, S) ==
    IF \E i \in 1..Len(s) : s[i] \in S
    THEN CHOOSE i \in 1..Len(s) : s[i] \in S /\ \A j \in 1..(i - 1) : s[j] \notin S
    ELSE 0

\* urllib.parse.urlparse, its scheme and netloc: the scheme is what stands
\* before the first ':' if it begins with a letter and holds scheme characters
\* only; the netloc is what follows '//' up to the next '/', '?' or '#'
urlparse(url) ==
    LET i          == FirstIndex(url, {":"})
        has_scheme == /\ i > 1
                      /\ url[1] \in Letters
                      /\ \A j \in 1..(i - 1) : url[j] \in SchemeChars
        rest       == IF has_scheme THEN SubSeq(url, i + 1, Len(url)) ELSE url
        has_netloc == Len(rest) >= 2 /\ rest[1] = "/" /\ rest[2] = "/"
        after      == SubSeq(rest, 3, Len(rest))
        k          == FirstIndex(after, {"/", "?", "#"})
    IN  [scheme |-> IF has_scheme THEN Lower(SubSeq(url, 1, i - 1)) ELSE <<>>,
         netloc |-> IF ~has_netloc THEN <<>>
                    ELSE IF k = 0 THEN after ELSE SubSeq(after, 1, k - 1)]

\* _is_url, lines 138-144: all([result.scheme, result.netloc])
is_url(text) == urlparse(text).scheme # <<>> /\ urlparse(text).netloc # <<>>

\* re.match(r'^\d+_\d+$', input_data), line 132
is_post_id(s) ==
    \E k \in 2..(Len(s) - 1) :
        /\ s[k] = "_"
        /\ \A j \in (1..Len(s)) \ {k} : s[j] \in Digits

FacebookCom == <<"f","a","c","e","b","o","o","k",".","c","o","m">>

\* what _detect_input_type reads of its input, lines 122-132
ReadInput(input) ==
    LET stripped == Strip(input)
    IN  [is_url      |-> is_url(stripped),
         facebook_in |-> IsSubstring(FacebookCom, stripped),
         is_post_id  |-> is_post_id(stripped)]

\* the inputs: blanks, then a scheme or none, a host or a word, a path, blanks
InputPadding == {<<>>, <<" ">>}

InputSchemes == {<<"h","t","t","p","s",":","/","/">>, <<"h","t","t","p","s",":">>, <<"/","/">>, <<>>}

InputHosts ==
    { <<"w","w","w",".","f","a","c","e","b","o","o","k",".","c","o","m">>, <<"w","w","w",".","F","A","C","E","B","O","O","K",".","c","o","m">>,
      <<"e","x","a","m","p","l","e",".","c","o","m">>, <<"f","a","c","e","b","o","o","k",".","c","o","m",".","e","v","i","l",".","i","o">>,
      <<"1","2","3","_","4","5","6">>, <<"1","2","_">>, <<>> }

InputPaths ==
    { <<>>, <<"/","a">>, <<"/","?","r","e","f","=","f","a","c","e","b","o","o","k",".","c","o","m">>,
      <<"/","p","a","g","e","/","p","o","s","t","s","/","1">> }

DetectInputs ==
    { a \o s \o h \o p \o b :
        a \in InputPadding, s \in InputSchemes, h \in InputHosts,
        p \in InputPaths, b \in InputPadding }

InitDetect ==
    /\ pc = "detect"
    /\ input_data \in DetectInputs
    /\ input_type = "auto"
    /\ user_id = FALSE
    /\ db = FALSE
    /\ analysis_results = EmptyDict
    /\ processed_text = "unset"
    /\ key_phrases = 0
    /\ all_results = <<>>
    /\ calls = <<>>
    /\ weights = InitWeights
    /\ component_scores = NoSignals
    /\ assessment = NoAssessment

\* analyze_news, lines 45-46, with input_type 'auto'
Detect ==
    /\ pc = "detect"
    /\ input_type = "auto"
    /\ input_type' = detect_input_type(ReadInput(input_data))
    /\ pc' = "detected"
    /\ UNCHANGED <<input_data, user_id, db, analysis_results, processed_text, calls,
                   weights, component_scores, assessment, key_phrases, all_results>>

NextDetect == Detect

SpecDetect == InitDetect /\ [][NextDetect]_vars

----------------------------------------------------------------------------
(* _extract_key_phrases alone *)

\* line 249
stop_words ==
    { <<"t","h","e">>, <<"a">>, <<"a","n">>, <<"a","n","d">>,
      <<"o","r">>, <<"b","u","t">>, <<"i","n">>, <<"o","n">>,
      <<"a","t">>, <<"t","o">>, <<"f","o","r">>, <<"o","f">>,
      <<"w","i","t","h">>, <<"b","y">>, <<"i","s">>, <<"a","r","e">>,
      <<"w","a","s">>, <<"w","e","r","e">>, <<"b","e">>, <<"b","e","e","n">>,
      <<"h","a","v","e">>, <<"h","a","s">>, <<"h","a","d">>, <<"d","o">>,
      <<"d","o","e","s">>, <<"d","i","d">>, <<"w","i","l","l">>, <<"w","o","u","l","d">>,
      <<"c","o","u","l","d">>, <<"s","h","o","u","l","d">> }

\* A text by what the extractor reads of it:
\*   split               text.split()
\*   quoted_text         re.findall(r'"([^"]+)"', text)
\*   capitalized_phrases re.findall(r'\b[A-Z][a-z]+(\s+[A-Z][a-z]+)*\b', text):
\*                       of each match its group, '' when the group took no part
\* the empty text
EmptyText ==
    [split |-> <<>>,
     quoted_text |-> <<>>,
     capitalized_phrases |-> <<>>]

\* the tax is low
ShortWords ==
    [split |-> <<<<"t","h","e">>,
                <<"t","a","x">>,
                <<"i","s">>,
                <<"l","o","w">>>>,
     quoted_text |-> <<>>,
     capitalized_phrases |-> <<>>]

\* Senate passes "tax cuts" after New York mayor claims vaccine budget would collapse
Headline ==
    [split |-> <<<<"S","e","n","a","t","e">>,
                <<"p","a","s","s","e","s">>,
                <<"\"","t","a","x">>,
                <<"c","u","t","s","\"">>,
                <<"a","f","t","e","r">>,
                <<"N","e","w">>,
                <<"Y","o","r","k">>,
                <<"m","a","y","o","r">>,
                <<"c","l","a","i","m","s">>,
                <<"v","a","c","c","i","n","e">>,
                <<"b","u","d","g","e","t">>,
                <<"w","o","u","l","d">>,
                <<"c","o","l","l","a","p","s","e">>>>,
     quoted_text |-> <<<<"t","a","x"," ","c","u","t","s">>>>,
     capitalized_phrases |-> <<<<>>,
                              <<" ","Y","o","r","k">>>>]

\* Budget budget BUDGET mayor
Repeated ==
    [split |-> <<<<"B","u","d","g","e","t">>,
                <<"b","u","d","g","e","t">>,
                <<"B","U","D","G","E","T">>,
                <<"m","a","y","o","r">>>>,
     quoted_text |-> <<>>,
     capitalized_phrases |-> <<<<>>>>]

\* they said "abc" and "abcd" again
ShortQuotes ==
    [split |-> <<<<"t","h","e","y">>,
                <<"s","a","i","d">>,
                <<"\"","a","b","c","\"">>,
                <<"a","n","d">>,
                <<"\"","a","b","c","d","\"">>,
                <<"a","g","a","i","n">>>>,
     quoted_text |-> <<<<"a","b","c">>,
                      <<"a","b","c","d">>>>,
     capitalized_phrases |-> <<>>]

Repeat(c, n) == [i \in 1..n |-> c]

\* said "x...x" and "y...y" today, with 100 times x and 99 times y
LongQuote ==
    [split |-> << <<"s","a","i","d">>,
                  <<"\"">> \o Repeat("x", 100) \o <<"\"">>,
                  <<"a","n","d">>,
                  <<"\"">> \o Repeat("y", 99) \o <<"\"">>,
                  <<"t","o","d","a","y">> >>,
     quoted_text |-> <<Repeat("x", 100), Repeat("y", 99)>>,
     capitalized_phrases |-> <<>>]

KeyPhraseTexts == {EmptyText, ShortWords, Headline, Repeated, ShortQuotes, LongQuote}

\* line 264: len(word) > 4 and word not in stop_words
IsImportantWord(word) == Len(word) > 4 /\ word \notin stop_words

FirstN(s, n) == SubSeq(s, 1, Min(n, Len(s)))

\* lines 246-265: key_phrases as it stands before line 268
candidate_phrases(text) ==
    LET words == [i \in 1..Len(text.split) |-> Lower(text.split[i])]
        important_words == SelectSeq(words, IsImportantWord)
    IN  text.quoted_text \o text.capitalized_phrases \o FirstN(important_words, 5)

\* line 268: len(phrase) > 3 and len(phrase) < 100
IsReasonableLength(phrase) == Len(phrase) > 3 /\ Len(phrase) < 100

\* lines 268-269 without set(): the phrases of reasonable length, cut to five
extract_key_phrases_repeating(text) ==
    { FirstN(SelectSeq(candidate_phrases(text), IsReasonableLength), 5) }

\* lines 243-269: the lists _extract_key_phrases may return.  list(set(...))
\* has the order of the set's hash table, which differs from run to run, and
\* [:5] cuts it: any five of the unique phrases in any order.
extract_key_phrases(text) ==
    LET c == candidate_phrases(text)
        unique_phrases == {c[i] : i \in {j \in 1..Len(c) : IsReasonableLength(c[j])}}
        n == Min(5, Cardinality(unique_phrases))
    IN  {s \in [1..n -> unique_phrases] : \A i, j \in 1..n : i # j => s[i] # s[j]}

\* key_phrases holds the list of phrases here, not their number
InitExtract ==
    /\ pc = "extract_key_phrases"
    /\ input_data \in KeyPhraseTexts
    /\ input_type = "text"
    /\ user_id = FALSE
    /\ db = FALSE
    /\ analysis_results = EmptyDict
    /\ processed_text = "unset"
    /\ key_phrases = <<>>
    /\ all_results = <<>>
    /\ calls = <<>>
    /\ weights = InitWeights
    /\ component_scores = NoSignals
    /\ assessment = NoAssessment

\* _get_factcheck_results, line 210
ExtractPhrases ==
    /\ pc = "extract_key_phrases"
    /\ key_phrases' \in extract_key_phrases(input_data)
    /\ pc' = "extracted"
    /\ UNCHANGED <<input_data, input_type, user_id, db, analysis_results,
                   processed_text, calls, weights, component_scores, assessment,
                   all_results>>

NextExtract == ExtractPhrases

SpecExtract == InitExtract /\ [][NextExtract]_vars

----------------------------------------------------------------------------
(* calculate_credibility_score alone, on the results of the five stages *)

\* ml_prediction: absent, the fallback of a failed classifier, a label, a number
MlData ==
    { EmptyDict,
      get_ml_prediction([kind |-> "raise"]),
      get_ml_prediction([kind |-> "ok", prediction |-> "real", confidence |-> 1000]),
      get_ml_prediction([kind |-> "ok", prediction |-> "fake", confidence |-> 900]),
      [empty |-> FALSE, is_str |-> FALSE, prediction |-> "", number |-> 250,
       confidence |-> 600, error |-> FALSE] }

\* factcheck_results: absent, failed, without credibility analysis, without
\* evidence, with evidence
FactcheckData ==
    { EmptyDict,
      NoFactcheckResult(TRUE, "Fact check failed"),
      [empty |-> FALSE, error |-> FALSE, claims |-> <<>>, credibility_analysis |-> EmptyDict],
      NoFactcheckResult(FALSE, "No fact checks found"),
      [empty |-> FALSE, error |-> FALSE, claims |-> <<>>,
       credibility_analysis |-> [NoFactChecks("Likely False") EXCEPT
                                    !.overall_score = 0, !.confidence = 500,
                                    !.evidence_count = 2, !.source_diversity = 2]] }

\* poser_analysis: absent, an error, an account by its risk level
RiskLevels == {"LOW", "MEDIUM", "HIGH", "UNKNOWN"}

PoserData ==
    { EmptyDict, [empty |-> FALSE, error |-> TRUE, poser_analysis |-> NoPoserAnalysis] }
    \cup { [empty |-> FALSE, error |-> FALSE,
            poser_analysis |-> [empty |-> FALSE, risk_level |-> r, is_verified |-> v]] :
              r \in RiskLevels, v \in BOOLEAN }

\* preprocessing_results: absent, or flags around every threshold of the score
PreprocessingData ==
    { EmptyDict }
    \cup { Flags(fake, sarcastic, sarcasm_confidence, slang, tokens) :
              fake \in {0, 1, 3, 4, 7}, sarcastic \in BOOLEAN,
              sarcasm_confidence \in {500, 1000}, slang \in {3, 4},
              tokens \in {9, 10, 1000, 1001} }

SourceTypes == {"text", "url", "facebook_url", "facebook_post_id", "facebook", "user_input"}

SourceDomains ==
    { <<>>, <<"b","b","c",".","c","o","m">>, <<"f","a","k","e","-","n","e","w","s","-","s","i","t","e",".","c","o","m">>,
      <<"x",".","g","o","v">>, <<"m","i","t",".","e","d","u">>,
      <<"w","w","w",".","f","a","c","e","b","o","o","k",".","c","o","m">>, <<"u","n","k","n","o","w","n",".","c","o","m">> }

\* source_info: absent, or a type with a domain
SourceData ==
    { EmptyDict }
    \cup { [empty |-> FALSE, type |-> ty, domain |-> d] :
              ty \in SourceTypes, d \in SourceDomains }

AnalysisData(ml, fc, poser, prep, source) ==
    [ml_prediction |-> ml, factcheck_results |-> fc, poser_analysis |-> poser,
     preprocessing_results |-> prep, source_info |-> source]

\* nothing came of any stage; the three stages that can fail failed; every
\* stage gave a result
StagesAbsent == AnalysisData(EmptyDict, EmptyDict, EmptyDict, EmptyDict, EmptyDict)

StagesFailed ==
    AnalysisData(get_ml_prediction([kind |-> "raise"]),
                 NoFactcheckResult(TRUE, "Fact check failed"),
                 [empty |-> FALSE, error |-> TRUE, poser_analysis |-> NoPoserAnalysis],
                 EmptyDict, EmptyDict)

StagesPresent ==
    AnalysisData(get_ml_prediction([kind |-> "ok", prediction |-> "real", confidence |-> 1000]),
                 NoFactcheckResult(FALSE, "No fact checks found"),
                 [empty |-> FALSE, error |-> FALSE,
                  poser_analysis |-> [empty |-> FALSE, risk_level |-> "LOW",
                                      is_verified |-> FALSE]],
                 Flags(0, FALSE, 0, 0, 12),
                 [empty |-> FALSE, type |-> "text", domain |-> <<>>])

\* the analysis data: one of the three above with one stage's result replaced
AnalysisInputs ==
    UNION { {[b EXCEPT !.ml_prediction = x] : x \in MlData}
            \cup {[b EXCEPT !.factcheck_results = x] : x \in FactcheckData}
            \cup {[b EXCEPT !.poser_analysis = x] : x \in PoserData}
            \cup {[b EXCEPT !.preprocessing_results = x] : x \in PreprocessingData}
            \cup {[b EXCEPT !.source_info = x] : x \in SourceData} :
            b \in {StagesAbsent, StagesFailed, StagesPresent} }

InitScore ==
    /\ pc = "score"
    /\ analysis_results \in AnalysisInputs
    /\ input_data = "none"
    /\ input_type = "none"
    /\ user_id = FALSE
    /\ db = FALSE
    /\ processed_text = "unset"
    /\ key_phrases = 0
    /\ all_results = <<>>
    /\ calls = <<>>
    /\ weights = InitWeights
    /\ component_scores = NoSignals
    /\ assessment = NoAssessment

\* calculate_credibility_score, lines 25-79
ScoreAnalysis ==
    /\ pc = "score"
    /\ component_scores' = extract_component_scores(analysis_results)
    /\ assessment' = calculate_credibility_score(analysis_results, weights)
    /\ pc' = "scored"
    /\ UNCHANGED <<input_data, input_type, user_id, db, analysis_results,
                   processed_text, calls, weights, key_phrases, all_results>>

NextScore == ScoreAnalysis

SpecScore == InitScore /\ [][NextScore]_vars

-----------------------------------------------------------------------------
(* _get_factcheck_results on a text: the key phrases, the loop of queries
   and the combined result *)

\* the texts whose evidence is looked up
FactcheckTexts == {EmptyText, ShortWords, Repeated, ShortQuotes}

\* what the fact-check service meets when it is asked about a phrase
PhraseResponses ==
    { [kind |-> "no_key"], [kind |-> "request_error"], [kind |-> "raise"],
      [kind |-> "ok", claims |-> <<>>],
      [kind |-> "ok",
        claims |-> <<Claim("someone", ReviewList(1, RatingFalse, RatingFalse))>>] }

\* the loop keeps every result whatever its error field says
keep_result_always(results, result) == Append(results, result)

\* lines 215-216: a result is kept unless its fact_check_results carry an error
keep_result(results, result) ==
    IF ~result.fact_check_results.error THEN Append(results, result) ELSE results

InitFactcheck ==
    /\ pc = "extract_key_phrases"
    /\ input_data \in FactcheckTexts
    /\ input_type = "text"
    /\ user_id = FALSE
    /\ db = FALSE
    /\ analysis_results = [factcheck_results |-> EmptyDict]
    /\ processed_text = "unset"
    /\ key_phrases = <<>>
    /\ all_results = <<>>
    /\ calls = <<>>
    /\ weights = InitWeights
    /\ component_scores = NoSignals
    /\ assessment = NoAssessment

\* lines 213-216 and 231-241: the query about the next of key_phrases[:3]
QueryPhrase ==
    /\ pc = "extracted"
    /\ QueriesMade < Min(MaxQueries, Len(key_phrases))
    /\ calls' = Append(calls, Call("get_fact_check_summary", key_phrases[QueriesMade + 1]))
    /\ \E response \in PhraseResponses :
          IF response.kind = "raise"
          THEN /\ analysis_results' =
                     [factcheck_results |-> NoFactcheckResult(TRUE, "Fact check failed")]
               /\ all_results' = all_results
               /\ pc' = "returned"
          ELSE /\ all_results' = keep_result(all_results, get_fact_check_summary(response))
               /\ UNCHANGED analysis_results
               /\ pc' = "extracted"
    /\ UNCHANGED <<input_data, input_type, user_id, db, processed_text, weights,
                   component_scores, assessment, key_phrases>>

\* lines 218-229: the combined result of the results kept by the loop
CombineResults ==
    /\ pc = "extracted"
    /\ QueriesMade >= Min(MaxQueries, Len(key_phrases))
    /\ analysis_results' =
          [factcheck_results |->
              IF all_results # <<>> THEN combine_factcheck_results(all_results)
              ELSE NoFactcheckResult(FALSE, "No fact checks found")]
    /\ pc' = "returned"
    /\ UNCHANGED <<input_data, input_type, user_id, db, processed_text, calls, weights,
                   component_scores, assessment, key_phrases, all_results>>

NextFactcheck == ExtractPhrases \/ QueryPhrase \/ CombineResults

SpecFactcheck == InitFactcheck /\ [][NextFactcheck]_vars

----------------------------------------------------------------------------
(* Claims *)

InUnit(x) == x \in 0..1000

SignalInUnit(sig) == InUnit(sig.score) /\ InUnit(sig.confidence)

\* the reviews of a sequence of processed claims are normalized into [0,1]
RatingsInUnit(claims) ==
    \A i \in 1..Len(claims) : \A j \in 1..Len(claims[i].reviews) :
        /\ InUnit(claims[i].reviews[j].normalized_rating.score)
        /\ InUnit(claims[i].reviews[j].normalized_rating.confidence)

FusionInUnit(f) ==
    /\ RatingsInUnit(f.claims)
    /\ InUnit(f.credibility_analysis.overall_score)
    /\ InUnit(f.credibility_analysis.confidence)

Scored == pc \in {"save", "done"} /\ analysis_results.verdict # "Analysis Failed"

\* C1: every score and every confidence of a request lies in [0,1]: each
\* normalized rating, each per-query fusion result, the combined fusion result,
\* the classifier's confidence, the five component signals, and the final
\* score and confidence of the aggregator and of the returned result.
C1_ScoresInUnit ==
    /\ \A i \in 1..Len(all_results) :
          /\ RatingsInUnit(all_results[i].fact_check_results.claims)
          /\ InUnit(all_results[i].credibility_analysis.overall_score)
          /\ InUnit(all_results[i].credibility_analysis.confidence)
    /\ pc \notin {"start"} =>
          /\ ~analysis_results.factcheck_results.empty
                => FusionInUnit(analysis_results.factcheck_results)
          /\ ~analysis_results.ml_prediction.empty
                => InUnit(analysis_results.ml_prediction.confidence)
          /\ InUnit(analysis_results.final_credibility_score)
          /\ InUnit(analysis_results.confidence)
    /\ Scored =>
          /\ \A c \in ComponentSet : SignalInUnit(component_scores[c])
          /\ \A c \in ComponentSet : SignalInUnit(analysis_results.component_scores[c])
          /\ InUnit(assessment.final_score)
          /\ InUnit(assessment.confidence)
          /\ assessment.raw_score \in 0..100000
          /\ assessment.raw_confidence \in 0..100000

\* a scored request whose text-flag score was clamped at 0, whose evidence was
\* fused from reviews and whose account signal reached the cap of 1.0
C1_Witness ==
    /\ Scored
    /\ component_scores["preprocessing_flags"].score = 0
    /\ component_scores["poser_detection"].score = 1000
    /\ analysis_results.factcheck_results.claims # <<>>
    /\ component_scores["factcheck_results"].confidence > 0

\* C2: the verdict label is gated by confidence: below 0.3 it is "Insufficient
\* Evidence" whatever the score; otherwise the score bucket (>= 0.8, >= 0.6,
\* >= 0.4, >= 0.2, else) chooses the pair of labels, and the label is the
\* high-confidence one exactly when the confidence is at least the bucket's
\* threshold (0.7, 0.6, 0.5, 0.6, 0.7).
BucketFloors == <<80000, 60000, 40000, 20000, 0>>

BucketThresholds == <<70000, 60000, 50000, 60000, 70000>>

HighLabels ==
    <<"Highly Credible", "Mostly Credible", "Mixed Evidence",
      "Mostly Unreliable", "Highly Unreliable">>

LowLabels ==
    <<"Likely Credible", "Leaning Credible", "Uncertain",
      "Leaning Unreliable", "Likely Unreliable">>

Bucket(score) == CHOOSE b \in 1..5 : /\ score >= BucketFloors[b]
                                      /\ \A a \in 1..(b - 1) : score < BucketFloors[a]

GatedLabel(score, confidence) ==
    IF confidence < 30000 THEN "Insufficient Evidence"
    ELSE IF confidence >= BucketThresholds[Bucket(score)] THEN HighLabels[Bucket(score)]
    ELSE LowLabels[Bucket(score)]

C2_VerdictGated ==
    pc = "verdict returned" =>
        assessment.verdict = GatedLabel(assessment.raw_score, assessment.raw_confidence)

\* a confidence just under the threshold of the second bucket gives its
\* low-confidence label
C2_Witness ==
    /\ pc = "verdict returned"
    /\ assessment.raw_score = 60000
    /\ assessment.raw_confidence = 59999
    /\ assessment.verdict = "Leaning Credible"

UniformLabel(c) ==
    IF c < 200 THEN "Insufficient Evidence"
    ELSE IF c >= 600 THEN "Highly Credible"
    ELSE "Likely Credible"

\* C3 as stated: five signals of score 0.8 and confidence 0.75 give "Highly
\* Credible", and five signals of score 0.8 and confidence 0.65 give "Likely
\* Credible".
C3_AsStated ==
    pc = "aggregated" =>
        /\ component_scores = Uniform(800, 750) => assessment.verdict = "Highly Credible"
        /\ component_scores = Uniform(800, 650) => assessment.verdict = "Likely Credible"

\* C3, amended: five signals of score 0.8 and equal confidence c aggregate to
\* the confidence min(1, c + 0.10): their scores agree, so the agreement bonus
\* applies.  The label is "Highly Credible" for c = 0.75 and also for
\* c = 0.65 (confidence 0.75); it is "Likely Credible" exactly for
\* 0.2 <= c < 0.6, and "Insufficient Evidence" for c < 0.2.
C3_LabelBoundary ==
    pc = "aggregated" =>
        \A c \in UniformConfidences :
            component_scores = Uniform(800, c) =>
                /\ assessment.raw_score = 80000
                /\ assessment.raw_confidence = Min(100000, 100 * c + 10000)
                /\ assessment.verdict = UniformLabel(c)

\* five signals (0.8, 0.65) were aggregated to "Highly Credible"
C3_Witness ==
    /\ pc = "aggregated"
    /\ component_scores = Uniform(800, 650)
    /\ assessment.raw_confidence = 75000
    /\ assessment.verdict = "Highly Credible"

\* the weighted sum of the five scores with the nominal weights, in 1/100000
NominalSum(cs) ==
    cs["ml_prediction"].score * 35 + cs["factcheck_results"].score * 30
    + cs["poser_detection"].score * 15 + cs["preprocessing_flags"].score * 10
    + cs["source_credibility"].score * 10

NominalWeight(c) ==
    IF c = "ml_prediction" THEN 35
    ELSE IF c = "factcheck_results" THEN 30
    ELSE IF c = "poser_detection" THEN 15
    ELSE 10

\* C4 as stated: final_score equals the sum of score times weight over the
\* five signals.
C4_AsStated ==
    Scored => assessment.final_score * 100 = NominalSum(component_scores)

\* C4, amended: the weighted sum of the five scores with the fixed weights
\* (0.35, 0.30, 0.15, 0.10, 0.10) is never renormalized over the signals that
\* are present, a defaulted signal counts with its default score at its full
\* weight, and changing one signal's score by d changes the sum by exactly
\* weight * d; final_score is that sum rounded to three decimals (within
\* 0.0005 of it), and the label is chosen from the unrounded sum.
C4_WeightedSum ==
    Scored =>
        /\ assessment.raw_score = NominalSum(component_scores)
        /\ assessment.final_score * 100 - NominalSum(component_scores) \in -50..50
        /\ analysis_results.final_credibility_score = assessment.final_score
        /\ assessment.verdict =
              GatedLabel(NominalSum(component_scores), assessment.raw_confidence)
        /\ \A c \in ComponentSet : \A s \in {0, 500, 1000} :
              weighted_score([component_scores EXCEPT ![c].score = s], weights)
                 - assessment.raw_score
              = NominalWeight(c) * (s - component_scores[c].score)

\* a scored request whose account signal is the default for an absent input
\* and whose weighted sum is not a whole number of thousandths
C4_Witness ==
    /\ Scored
    /\ analysis_results.poser_analysis.empty
    /\ component_scores["poser_detection"] = Signal(700, 0)
    /\ NominalSum(component_scores) % 100 # 0
    /\ assessment.final_score * 100 # NominalSum(component_scores)

StageOps ==
    {"preprocess", "predict", "get_fact_check_summary", "analyze_account_activity",
     "save_analysis_result"}

Called(op) == \E i \in 1..Len(calls) : calls[i].op = op

Extraction == pc \notin {"start", "extract"}

\* C5: when the extracted content is empty or shorter than 10 characters the
\* request ends with final_score 0.5, confidence 0.0 and label "Analysis
\* Failed", and neither a signal-gathering stage nor the aggregator nor
\* persistence is invoked.
C5_InsufficientContent ==
    (Extraction /\ analysis_results.extracted_text.len < 10) =>
        /\ pc = "done"
        /\ analysis_results.final_credibility_score = 500
        /\ analysis_results.confidence = 0
        /\ analysis_results.verdict = "Analysis Failed"
        /\ \A op \in StageOps : ~Called(op)
        /\ analysis_results.preprocessing_results.empty
        /\ analysis_results.ml_prediction.empty
        /\ analysis_results.factcheck_results.empty
        /\ analysis_results.poser_analysis.empty
        /\ analysis_results.source_info.empty
        /\ assessment = NoAssessment
        /\ analysis_results.analysis_id = "unset"

\* a request whose content of 1 to 9 characters ended it, with a store that
\* would have been asked to save
C5_Witness ==
    /\ pc = "done"
    /\ analysis_results.extracted_text.len \in 1..9
    /\ analysis_results.verdict = "Analysis Failed"
    /\ user_id /\ db

\* C6: insufficient content is the only failure the caller sees: a request
\* whose extracted content has at least 10 characters ends with an aggregated
\* verdict, not "Analysis Failed", whatever fails among the text-flag
\* preprocessor, the classifier, the fact-check provider, the social platform
\* and the store.
C6_OnlyInsufficientContentFails ==
    (pc = "done" /\ analysis_results.extracted_text.len >= 10
                 /\ analysis_results.extracted_text.strip_len >= 10) =>
        analysis_results.verdict # "Analysis Failed"

\* C7: no stage takes another stage's output as its input: the classifier is
\* given the request's extracted content, as the text-flag and fact-check
\* stages are, so that the order of the stages cannot matter.
C7_StagesIndependent ==
    \A i \in 1..Len(calls) :
        calls[i].op \in {"preprocess", "predict"} =>
            calls[i].arg = analysis_results.extracted_text

Saved(stored) ==
    /\ calls # <<>>
    /\ calls[Len(calls)] = Call("save_analysis_result", stored)

\* C8: when a requester id is given and saving the verdict fails, the request
\* still returns the score, confidence, label and explanation the aggregator
\* produced, with a null record identifier.
C8_SaveFailureTolerated ==
    (pc = "done" /\ Saved(FALSE)) =>
        /\ user_id
        /\ analysis_results.final_credibility_score = assessment.final_score
        /\ analysis_results.confidence = assessment.confidence
        /\ analysis_results.verdict = assessment.verdict
        /\ analysis_results.explanation = assessment.explanation
        /\ analysis_results.verdict # "Analysis Failed"
        /\ analysis_results.error = "none"
        /\ analysis_results.analysis_id = "None"

\* a request that was scored and whose save failed
C8_Witness ==
    /\ pc = "done"
    /\ Saved(FALSE)
    /\ analysis_results.verdict = "Leaning Unreliable"
    /\ analysis_results.analysis_id = "None"

\* the scenario of C9: a text input with two fake indicators, no sarcasm and
\* at least 10 tokens, classified fake with confidence 0.9, with no fact-check
\* evidence, no social signal and no domain
C9_Scenario ==
    /\ Scored
    /\ input_type = "text"
    /\ analysis_results.preprocessing_results = Flags(2, FALSE, 0, 0, 12)
    /\ analysis_results.ml_prediction.prediction = "fake"
    /\ analysis_results.ml_prediction.confidence = 900
    /\ analysis_results.factcheck_results.claims = <<>>
    /\ analysis_results.poser_analysis.empty
    /\ analysis_results.source_info.domain = <<>>

\* C9 as stated: in the scenario the signals are text-flags 0.4, classifier
\* 0.0, evidence 0.5/0.0, account-risk 0.7/0.0, source 0.5/0.4, final_score
\* is 0.335 and the label is "Mostly Unreliable" or "Leaning Unreliable".
C9_AsStated ==
    C9_Scenario =>
        /\ component_scores["preprocessing_flags"].score = 400
        /\ component_scores["ml_prediction"].score = 0
        /\ component_scores["factcheck_results"] = Signal(500, 0)
        /\ component_scores["poser_detection"] = Signal(700, 0)
        /\ component_scores["source_credibility"] = Signal(500, 400)
        /\ assessment.final_score = 335
        /\ assessment.verdict \in {"Mostly Unreliable", "Leaning Unreliable"}

\* C9, amended: in the scenario the signals are text-flags 0.4, classifier
\* 0.0, account-risk 0.7/0.0, source 0.5/0.4 and evidence of score 0.5, with
\* confidence 0.0 when no query was answered and 0.3 when a query was
\* answered with no claims; final_score is 0.345
\* (0.15 + 0.105 + 0.04 + 0.05), the confidence is 0.505 or 0.595, and the
\* label is "Leaning Unreliable".
C9_EndToEnd ==
    C9_Scenario =>
        LET fused == analysis_results.factcheck_results.credibility_analysis
            answered == fused.evidence_count = 0
        IN  /\ component_scores["preprocessing_flags"].score = 400
            /\ component_scores["ml_prediction"] = Signal(0, 900)
            /\ component_scores["factcheck_results"] =
                  Signal(500, IF answered THEN 300 ELSE 0)
            /\ component_scores["poser_detection"] = Signal(700, 0)
            /\ component_scores["source_credibility"] = Signal(500, 400)
            /\ assessment.final_score = 345
            /\ assessment.confidence = (IF answered THEN 595 ELSE 505)
            /\ assessment.verdict = "Leaning Unreliable"

\* the scenario, with two queries that both failed
C9_Witness ==
    /\ C9_Scenario
    /\ pc = "done"
    /\ QueriesMade = 2
    /\ analysis_results.factcheck_results.credibility_analysis.verdict
          = "No fact checks found"
    /\ assessment.final_score = 345

\* C10: the five weights sum to exactly 1.0 and no call of the scorer changes
\* them: they are 0.35, 0.30, 0.15, 0.10, 0.10 before and after every
\* aggregation, and the weights a call reports are those values.
C10_WeightsFixed ==
    /\ DOMAIN weights = ComponentSet
    /\ weights["ml_prediction"] + weights["factcheck_results"]
         + weights["poser_detection"] + weights["preprocessing_flags"]
         + weights["source_credibility"] = 100
    /\ \A c \in ComponentSet : weights[c] = NominalWeight(c)
    /\ pc = "aggregated" => assessment.weights_used = weights

\* the scorer after three aggregations
C10_Witness ==
    /\ pc = "aggregated"
    /\ Len(calls) = 3
    /\ component_scores = Uniform(333, 1000)

Normalized == pc = "normalized"

\* the entry of the table key at position i
TableEntry(i) ==
    Rating(rating_mappings[i].score, rating_mappings[i].label,
           rating_mappings[i].confidence, <<>>)

\* the positions of the table keys that relate to the text r by rel
KeysWhere(rel(_, _), r) == {i \in 1..Len(rating_mappings) : rel(rating_mappings[i].key, r)}

FirstOf(S) == CHOOSE i \in S : \A j \in S : i <= j

SameText(k, r) == k = r

KeyInText(k, r) == IsSubstring(k, r)

KeyInTextOrTextInKey(k, r) == IsSubstring(k, r) \/ IsSubstring(r, k)

\* C11: an empty rating text yields {0.5, "Unknown", 0.0}, and a rating text
\* that equals a table key up to letter case yields that key's entry;
\* "FALSE" yields {0.0, "False", 0.9}.
C11_ExactMatch ==
    Normalized =>
        LET r == assessment.textual_rating
            n == assessment.normalized_rating
        IN  /\ r = <<>> => n = Rating(500, "Unknown", 0, <<>>)
            /\ r = <<"F","A","L","S","E">> => n = Rating(0, "False", 900, <<>>)
            /\ \A i \in 1..Len(rating_mappings) :
                  Lower(r) = rating_mappings[i].key => n = TableEntry(i)

\* "FALSE" was normalized to the entry of 'false'
C11_Witness ==
    /\ Normalized
    /\ assessment.textual_rating = <<"F","A","L","S","E">>
    /\ assessment.normalized_rating.label = "False"

\* C12 as stated: a non-empty rating text with no exact match yields the entry
\* of the first table key, in table order, that is a substring of the
\* lower-cased text, and the default {0.5, "Unknown (<text>)", 0.3} when no
\* table key is a substring of it.
C12_AsStated ==
    Normalized =>
        LET r == assessment.textual_rating
            n == assessment.normalized_rating
            found == KeysWhere(KeyInText, Lower(r))
        IN  (r # <<>> /\ KeysWhere(SameText, Lower(r)) = {}) =>
                n = IF found # {} THEN TableEntry(FirstOf(found))
                    ELSE Rating(500, "Unknown (...)", 300, r)

\* C12, amended: a non-empty rating text with no exact match yields the entry
\* of the first table key, in table order, that is a substring of the
\* lower-cased text or has the lower-cased text as a substring; the default
\* {0.5, "Unknown (<text>)", 0.3} is returned only when no key matches in
\* either direction.
C12_ResolutionOrder ==
    Normalized =>
        LET r == assessment.textual_rating
            n == assessment.normalized_rating
            found == KeysWhere(KeyInTextOrTextInKey, Lower(r))
        IN  (r # <<>> /\ KeysWhere(SameText, Lower(r)) = {}) =>
                n = IF found # {} THEN TableEntry(FirstOf(found))
                    ELSE Rating(500, "Unknown (...)", 300, r)

\* "Mos", which no key is a substring of, was normalized to "Mostly True",
\* the entry of the first key that contains it
C12_Witness ==
    /\ Normalized
    /\ assessment.textual_rating = <<"M","o","s">>
    /\ assessment.normalized_rating = Rating(800, "Mostly True", 800, <<>>)

\* the reviews of the processed claims the evidence result carries
EvidenceReviews == AllReviews(analysis_results.factcheck_results.claims)

\* C13: whenever the fused evidence holds zero reviews, its overall_score is
\* 0.5 and its confidence is 0.0, also for the evidence signal handed to the
\* aggregator when the fact-check queries were answered without results.
C13_NoReviewsNoConfidence ==
    (Scored /\ ~analysis_results.factcheck_results.error /\ EvidenceReviews = <<>>) =>
        /\ analysis_results.factcheck_results.credibility_analysis.overall_score = 500
        /\ analysis_results.factcheck_results.credibility_analysis.confidence = 0
        /\ component_scores["factcheck_results"] = Signal(500, 0)

FusedResults == {all_results[i].credibility_analysis : i \in 1..Len(all_results)}

Rated(f) == f.evidence_count > 0

\* C14: of two review sets with the same agreement, the one with at least as
\* many reviews and at least as many publishers has at least as large a
\* fusion confidence.
C14_ConfidenceMonotone ==
    \A a \in FusedResults, b \in FusedResults :
        ( /\ Rated(a) /\ Rated(b)
          /\ a.agreement_num = b.agreement_num
          /\ a.agreement_den = b.agreement_den
          /\ a.evidence_count <= b.evidence_count
          /\ a.source_diversity <= b.source_diversity )
        => a.confidence <= b.confidence

\* one review, then three agreeing reviews by three publishers: the
\* confidence grew from 0.4 to 0.6
C14_Witness ==
    /\ Len(all_results) = 2
    /\ all_results[1].credibility_analysis.evidence_count = 1
    /\ all_results[1].credibility_analysis.confidence = 400
    /\ all_results[2].credibility_analysis.evidence_count = 3
    /\ all_results[2].credibility_analysis.source_diversity = 3
    /\ all_results[2].credibility_analysis.agreement_num
          = all_results[1].credibility_analysis.agreement_num
    /\ all_results[2].credibility_analysis.agreement_den
          = all_results[1].credibility_analysis.agreement_den
    /\ all_results[2].credibility_analysis.confidence = 600

\* the scores and the normalization confidences (in thousandths) of the
\* reviews of a claim list, read from the rating texts
ReviewScores(claims) ==
    LET r == AllReviews(claims)
    IN  [i \in 1..Len(r) |-> normalize_rating(r[i].textual_rating).score]

ReviewWeights(claims) ==
    LET r == AllReviews(claims)
    IN  [i \in 1..Len(r) |-> normalize_rating(r[i].textual_rating).confidence]

WeightedScoreSum(claims) ==
    SumSeq([i \in 1..Len(ReviewScores(claims)) |->
               (ReviewScores(claims)[i] \div 100) * (ReviewWeights(claims)[i] \div 100)])

WeightSum(claims) ==
    SumSeq([i \in 1..Len(ReviewWeights(claims)) |-> ReviewWeights(claims)[i] \div 100])

\* C20 as stated: for a non-empty set of reviews overall_score is the mean of
\* the review scores weighted by the reviews' normalization confidences, and
\* their unweighted mean when the total weight is zero.
C20_AsStated ==
    \A i \in 1..Len(all_results) :
        LET c == all_results[i].claims
            f == all_results[i].credibility_analysis
        IN  AllReviews(c) # <<>> =>
               IF WeightSum(c) > 0
               THEN f.overall_score * WeightSum(c) = 100 * WeightedScoreSum(c)
               ELSE f.overall_score * Len(AllReviews(c)) = SumSeq(ReviewScores(c))

\* C20, amended: for a non-empty set of reviews overall_score is the mean of
\* the review scores weighted by the reviews' normalization confidences,
\* rounded to three decimals (within 0.0005 of the mean); when the total
\* weight is zero it is 0.5, which is the unweighted mean, since only a review
\* without a rating text has confidence 0.0 and its score is 0.5.
C20_WeightedMean ==
    \A i \in 1..Len(all_results) :
        LET c == all_results[i].claims
            f == all_results[i].credibility_analysis
        IN  AllReviews(c) # <<>> =>
               IF WeightSum(c) > 0
               THEN 2 * Abs(f.overall_score * WeightSum(c) - 100 * WeightedScoreSum(c))
                       <= WeightSum(c)
               ELSE /\ f.overall_score = 500
                    /\ f.overall_score * Len(AllReviews(c)) = SumSeq(ReviewScores(c))

\* reviews rated 1.0 (weight 0.9) and 0.8 (weight 0.8) were fused to 0.906,
\* the rounding of 1.54 / 1.7
C20_Witness ==
    /\ pc = "fused"
    /\ Len(all_results) = 1
    /\ ReviewScores(all_results[1].claims) = <<1000, 800>>
    /\ ReviewWeights(all_results[1].claims) = <<900, 800>>
    /\ all_results[1].credibility_analysis.overall_score = 906

\* the sum over the five signals of confidence times the weight of the same
\* signal, in 1/100000
NominalConfidence(cs) ==
    cs["ml_prediction"].confidence * NominalWeight("ml_prediction")
    + cs["factcheck_results"].confidence * NominalWeight("factcheck_results")
    + cs["poser_detection"].confidence * NominalWeight("poser_detection")
    + cs["preprocessing_flags"].confidence * NominalWeight("preprocessing_flags")
    + cs["source_credibility"].confidence * NominalWeight("source_credibility")

\* the population variance of the five scores is below 0.1: with the scores
\* in thousandths, sum of (5 s - S)^2 < 0.1 * 10^6 * 5 * 25
ScoresAgree(cs) ==
    LET S == cs["ml_prediction"].score + cs["factcheck_results"].score
             + cs["poser_detection"].score + cs["preprocessing_flags"].score
             + cs["source_credibility"].score
        D(c) == (5 * cs[c].score - S) * (5 * cs[c].score - S)
    IN  D("ml_prediction") + D("factcheck_results") + D("poser_detection")
        + D("preprocessing_flags") + D("source_credibility") < 12500000

FailureDefault(c) ==
    CASE c = "ml_prediction"       -> process_ml_prediction(EmptyDict)
      [] c = "factcheck_results"   -> process_factcheck_results(EmptyDict)
      [] c = "poser_detection"     -> process_poser_detection(EmptyDict)
      [] c = "preprocessing_flags" -> process_preprocessing_flags(EmptyDict)
      [] c = "source_credibility"  -> process_source_credibility(EmptyDict)

Degraded(cs, c) == [cs EXCEPT ![c] = FailureDefault(c)]

\* C17: with the other four signals fixed, replacing one stage's signal by
\* that stage's failure default never increases the aggregator's confidence.
C17_HonestDegradation ==
    pc = "aggregated" =>
        \A c \in ComponentSet :
            calculate_confidence(Degraded(component_scores, c), weights)
                <= assessment.raw_confidence

\* what _extract_text_content returns when it has no post content
ContentPlaceholders ==
    {"Could not extract Facebook post content", "Could not fetch Facebook post"}

\* C18: when the content of a social-post reference cannot be extracted (no
\* post identifier in the link, or the platform answers with an error), the
\* request ends with the insufficient-content failure, and the text-flag,
\* classifier and fact-check stages are not run on the placeholder.
C18_UnextractablePostFails ==
    (Extraction /\ analysis_results.extracted_text.what \in ContentPlaceholders) =>
        /\ pc = "done"
        /\ analysis_results.verdict = "Analysis Failed"
        /\ analysis_results.error = "Insufficient text content for analysis"
        /\ \A op \in {"preprocess", "predict", "get_fact_check_summary"} : ~Called(op)

\* the host of a well-formed URL, in lower case
Hostname(url) == Lower(urlparse(url).netloc)

\* the host is the social platform's, or a subdomain of it
SocialHost(host) == host = FacebookCom \/ EndsWith(host, <<".">> \o FacebookCom)

\* C15 as stated: with input_type auto a well-formed absolute URL whose
\* hostname is a known social platform is a social post, any other
\* well-formed absolute URL is a url, an input that is exactly digits,
\* underscore, digits is a social post by id, and everything else is text.
C15_AsStated ==
    pc = "detected" =>
        LET input == Strip(input_data)
        IN  input_type =
               IF is_url(input)
               THEN (IF SocialHost(Hostname(input)) THEN "facebook_url" ELSE "url")
               ELSE IF is_post_id(input) THEN "facebook_post_id"
               ELSE "text"

\* C15, amended: with input_type auto and the input trimmed of blanks, a
\* well-formed absolute URL (scheme and host present) that holds the text
\* "facebook.com" anywhere, in its host, path or query and in this spelling,
\* is a social post; any other well-formed absolute URL is a url; an input
\* that is exactly digits, underscore, digits is a social post by id;
\* everything else is text.
C15_DetectionRules ==
    pc = "detected" =>
        LET input == Strip(input_data)
        IN  input_type =
               IF is_url(input)
               THEN (IF \E i \in 1..(Len(input) - Len(FacebookCom) + 1) :
                          SubSeq(input, i, i + Len(FacebookCom) - 1) = FacebookCom
                     THEN "facebook_url" ELSE "url")
               ELSE IF is_post_id(input) THEN "facebook_post_id"
               ELSE "text"

\* a link to another host that names facebook.com in its query was taken
\* for a social post
C15_Witness ==
    /\ pc = "detected"
    /\ input_data = <<"h","t","t","p","s",":","/","/","e","x","a","m","p","l","e",".","c","o","m","/","?","r","e","f","=","f","a","c","e","b","o","o","k",".","c","o","m">>
    /\ Hostname(input_data) = <<"e","x","a","m","p","l","e",".","c","o","m">>
    /\ input_type = "facebook_url"

\* C16: the key-phrase extractor returns at most 5 phrases, pairwise
\* distinct, each of length at least 4 and less than 100 characters.
C16_KeyPhrases ==
    pc = "extracted" =>
        /\ Len(key_phrases) <= 5
        /\ \A i, j \in 1..Len(key_phrases) : i # j => key_phrases[i] # key_phrases[j]
        /\ \A i \in 1..Len(key_phrases) :
              Len(key_phrases[i]) >= 4 /\ Len(key_phrases[i]) < 100

\* seven phrases of reasonable length were found and five of them returned
C16_Witness ==
    /\ pc = "extracted"
    /\ input_data = Headline
    /\ Len(SelectSeq(candidate_phrases(input_data), IsReasonableLength)) = 7
    /\ Len(key_phrases) = 5

\* 1 - 4 * variance of the scores s (in tenths) about their own mean, not
\* below 0, as a numerator over 100 * Len(s)^2
OwnAgreement(s) ==
    LET n == Len(s)
        V == n * SumSeq([i \in 1..n |-> s[i] * s[i]]) - SumSeq(s) * SumSeq(s)
    IN  Max(0, 100 * n * n - 4 * V)

\* C21: the fusion agreement is max(0, 1 - 4 * variance(scores)), the
\* variance being that of the review scores about their own mean, when there
\* are at least 2 reviews, and 1.0 for a single review (agreement_level is
\* this value rounded to three decimals).
C21_AgreementByVariance ==
    \A i \in 1..Len(all_results) :
        LET c == all_results[i].claims
            f == all_results[i].credibility_analysis
            s == [k \in 1..Len(ReviewScores(c)) |-> ReviewScores(c)[k] \div 100]
            n == Len(s)
        IN  n > 0 =>
               f.agreement_level =
                  IF n > 1 THEN DivRound(1000 * OwnAgreement(s), 100 * n * n)
                  ELSE 1000

\* the fusion confidence with each factor capped: at most 0.4 for the number
\* of reviews, at most 0.3 for the number of publishers, 0.3 * agreement
CappedConfidence(f) ==
    DivRound((Min(400, 40 * f.evidence_count) + Min(300, 60 * f.source_diversity))
                 * f.agreement_den + 300 * f.agreement_num,
             f.agreement_den)

\* C22: in the fusion confidence the evidence volume contributes at most
\* 0.4, the source diversity at most 0.3 and the agreement at most 0.3,
\* whatever the numbers of reviews and publishers, so the confidence is 1.0
\* only when all three factors are at their caps.
C22_FactorsCapped ==
    \A f \in FusedResults :
        Rated(f) =>
            /\ f.confidence <= CappedConfidence(f)
            /\ f.confidence = 1000 =>
                  /\ f.evidence_count >= 10
                  /\ f.source_diversity >= 5
                  /\ f.agreement_num = f.agreement_den

\* the per-query scores and confidences the second-level fusion reads
QueryScores == [i \in 1..Len(all_results) |-> all_results[i].credibility_analysis.overall_score]

QueryConfidences == [i \in 1..Len(all_results) |-> all_results[i].credibility_analysis.confidence]

\* q is the quotient num / den to the nearest thousandth
NearestTo(q, num, den) == 2 * Abs(q * den - num) <= den

\* C23: the second-level fusion follows the rule of the first level: the
\* combined overall_score is the mean of the per-query scores weighted by the
\* per-query confidences (their unweighted mean when the total weight is
\* zero), and the combined confidence, evidence_count and source_diversity
\* are those the first-level fusion gives for all the queries' reviews.
C23_SecondLevelSameRule ==
    [][ ( /\ pc = "query" /\ pc' = "poser"
          /\ all_results # <<>>
          /\ ~analysis_results'.factcheck_results.error )
        =>
        LET combined == analysis_results'.factcheck_results
            ca       == combined.credibility_analysis
            union    == analyze_claim_credibility([claims |-> combined.claims])
            W        == SumSeq(QueryConfidences)
        IN  /\ IF W > 0
               THEN NearestTo(ca.overall_score,
                              SumSeq([i \in 1..Len(all_results) |->
                                         QueryScores[i] * QueryConfidences[i]]), W)
               ELSE NearestTo(ca.overall_score, SumSeq(QueryScores), Len(all_results))
            /\ ca.confidence = union.confidence
            /\ ca.evidence_count = union.evidence_count
            /\ ca.source_diversity = union.source_diversity
      ]_vars

\* a stage's result is absent, or reports the stage's error
AbsentOrErrored(d) == d.empty \/ d.error

FlagSum(p) ==
    600 - 100 * p.fake_indicators
        - (IF p.is_sarcastic THEN p.sarcasm_confidence \div 5 ELSE 0)
        - (IF p.slang_detected > 3 THEN 100 ELSE 0)
        - (IF p.token_count < 10 THEN 100 ELSE 0)
        + (IF p.token_count > 1000 THEN 50 ELSE 0)

\* C25: the text-flags score is FlagSum clamped to [0, 1], every fake
\* indicator counted in the score and at most 3 of them listed, and its
\* confidence is 0.5 whenever preprocessing results are present.
C25_TextFlagScore ==
    (pc = "scored" /\ ~analysis_results.preprocessing_results.empty) =>
        LET p == analysis_results.preprocessing_results
            s == FlagSum(p)
        IN  /\ component_scores["preprocessing_flags"].score
                  = (IF s < 0 THEN 0 ELSE IF s > 1000 THEN 1000 ELSE s)
            /\ component_scores["preprocessing_flags"].confidence = 500
            /\ listed_fake_indicators(p) <= 3
            /\ listed_fake_indicators(p) <= p.fake_indicators

\* four fake indicators, all counted: 0.6 - 0.4 - 0.1 (sarcasm 0.5) = 0.1
C25_Witness ==
    /\ pc = "scored"
    /\ analysis_results.preprocessing_results = Flags(4, TRUE, 500, 3, 10)
    /\ listed_fake_indicators(analysis_results.preprocessing_results) = 3
    /\ component_scores["preprocessing_flags"] = Signal(100, 500)

\* the source signal by the priority order on the domain: the reputation
\* table, then .gov and .edu, then the social platform, then the rest
ReputationOf(domain) ==
    IF Lookup(reliable_domains \o unreliable_domains, domain) >= 0
        THEN Signal(Lookup(reliable_domains \o unreliable_domains, domain), 800)
    ELSE IF EndsWith(domain, <<".","g","o","v">>) \/ EndsWith(domain, <<".","e","d","u">>)
        THEN Signal(850, 700)
    ELSE IF SocialHost(domain) THEN Signal(400, 500)
    ELSE Signal(500, 300)

\* C26: for a request analyzed from a URL the source signal follows the
\* priority order on the URL's domain: the table entry, else 0.85/0.7 for
\* .gov and .edu, else 0.4/0.5 for a social-platform domain, else 0.5/0.3.
C26_SourceReputation ==
    (Scored /\ input_type \in {"url", "facebook_url"}) =>
        component_scores["source_credibility"] = ReputationOf(input_data.netloc)

CallsOf(op) == Cardinality({i \in 1..Len(calls) : calls[i].op = op})

\* C27: the account analysis is asked for exactly the requests whose input
\* is a social post, by link or by id: once for each of them, and never for a
\* text or another link, whose account-risk signal is the default (0.7, 0.0).
C27_AccountRiskForSocialPosts ==
    Scored =>
        /\ input_type \in {"facebook_url", "facebook_post_id"}
              => CallsOf("analyze_account_activity") = 1
        /\ input_type \in {"text", "url"}
              => /\ CallsOf("analyze_account_activity") = 0
                 /\ component_scores["poser_detection"] = Signal(700, 0)

\* the result slots of the five stages
Slots ==
    {"preprocessing_results", "ml_prediction", "factcheck_results", "poser_analysis",
     "source_info"}

\* where the request stands when the stage of a slot runs
StageOf(slot) ==
    CASE slot = "preprocessing_results" -> "preprocess"
      [] slot = "ml_prediction"         -> "ml"
      [] slot = "factcheck_results"     -> "query"
      [] slot = "poser_analysis"        -> "poser"
      [] slot = "source_info"           -> "source"

\* every slot holds a result, or its stage did not apply and the scorer's
\* default stands for it
SlotsResolved ==
    /\ \A s \in Slots \ {"poser_analysis"} : ~analysis_results[s].empty
    /\ analysis_results.poser_analysis.empty => ~PoserWanted

\* C28: within a request each stage's slot is written at most once and by
\* its own stage; the aggregation starts only when the five slots are
\* resolved; no slot changes once the aggregation has started; and the store
\* is asked only after the aggregation has given the verdict.
C28_SlotsWriteOnce ==
    /\ [][ pc # "start" =>
              (\A s \in Slots :
                  analysis_results'[s] # analysis_results[s]
                     => (analysis_results[s].empty /\ pc = StageOf(s))) ]_vars
    /\ [](pc \in {"score", "save"} => SlotsResolved)
    /\ [][ (pc \in {"score", "save", "done"}) =>
              (\A s \in Slots : analysis_results'[s] = analysis_results[s]) ]_vars
    /\ [](Called("save_analysis_result") =>
              (/\ assessment # NoAssessment
               /\ analysis_results.verdict = assessment.verdict))

\* a request that went through the five stages, the aggregation and the store
C28_Witness ==
    /\ pc = "done"
    /\ \A s \in Slots : ~analysis_results[s].empty
    /\ assessment # NoAssessment
    /\ Called("save_analysis_result")

\* the phrases the fact-check service was asked about, in order
Queried ==
    LET asked == SelectSeq(calls, LAMBDA c : c.op = "get_fact_check_summary")
    IN  [i \in 1..Len(asked) |-> asked[i].arg]

\* the lookup ended by an exception caught in _get_factcheck_results
LookupRaised ==
    /\ ~analysis_results.factcheck_results.empty
    /\ analysis_results.factcheck_results.error

\* C29: the fact-check service is asked at most 3 times in a request, each
\* time about one of the phrases the extractor returned (the i-th query is
\* about the i-th phrase); a result with an error is not among the results
\* that are combined, and while no call raises the loop goes on to ask
\* about every one of the first 3 phrases.
C29_QueriesBounded ==
    /\ Len(Queried) <= 3
    /\ Len(Queried) <= Len(key_phrases)
    /\ \A i \in 1..Len(Queried) : Queried[i] = key_phrases[i]
    /\ \A i \in 1..Len(all_results) : ~all_results[i].fact_check_results.error
    /\ Len(all_results) <= Len(Queried)
    /\ (pc = "returned" /\ ~LookupRaised)
          => /\ Len(Queried) = Min(3, Len(key_phrases))
             /\ analysis_results.factcheck_results.claims =
                   IF all_results = <<>> THEN <<>>
                   ELSE combine_factcheck_results(all_results).claims

\* three phrases out of four were asked about, one of the queries came back
\* with an error and the others were still issued and combined
C29_Witness ==
    /\ pc = "returned"
    /\ ~LookupRaised
    /\ Len(key_phrases) > 3
    /\ Len(Queried) = 3
    /\ Len(all_results) = 2
    /\ analysis_results.factcheck_results.claims # <<>>

\* the phrases of a list of candidates that have a valid length
ValidPhrases(candidates) ==
    {candidates[i] : i \in {j \in 1..Len(candidates) : IsReasonableLength(candidates[j])}}

\* the rank of a returned phrase by the first kind of candidate it came
\* from: 1 a quoted substring, 2 a capitalized phrase, 3 a keyword
KindOf(phrase) ==
    IF phrase \in ValidPhrases(input_data.quoted_text) THEN 1
    ELSE IF phrase \in ValidPhrases(input_data.capitalized_phrases) THEN 2
    ELSE 3

\* C30: the key phrases are returned in priority order, quoted substrings
\* of valid length before capitalized phrases before keywords; so when the
\* text has a quoted substring of valid length, a quoted phrase is among the
\* phrases the fact-check service is asked about.
C30_PriorityOrder ==
    /\ \A i, j \in 1..Len(key_phrases) :
          i < j => KindOf(key_phrases[i]) <= KindOf(key_phrases[j])
    /\ (/\ pc = "returned"
        /\ ~LookupRaised
        /\ ValidPhrases(input_data.quoted_text) # {})
          => \E i \in 1..Len(Queried) : KindOf(Queried[i]) = 1

====
